---- MODULE Spec2Model ----
(***************************************************************************)
(* Model of the netflux Runtime (src/runtime.py): node registry, lifecycle *)
(* posting, the per-node observables and watch().                          *)
(*                                                                         *)
(* Every `with self._lock:` block of runtime.py is one atomic action: the  *)
(* runtime mutex serialises the blocks, and Condition.wait() releases the  *)
(* mutex, so a blocked watch() is a state in which the mutex is free.      *)
(***************************************************************************)
EXTENDS Integers, Sequences, FiniteSets, TLC

\* ---------------------------------------------------------------- bounds
MaxNodes == 3            \* number of invoke() calls explored
MaxActive == 2           \* nodes that are created and not yet terminal at one time
MaxSeq == 5              \* direct calls of post_* stop once the seqnum reaches this
LiveNodes == 2           \* number of invoke() calls explored under LiveSpec
StepNodes == 2           \* number of invoke() calls explored under StepSpec
CancelNodes == 2         \* number of invoke() calls explored under CancelSpec
InvokeNodes == 2         \* number of node ids handed out under InvokeSpec
BagNodes == 3            \* nodes in the runs that use session bags
MaxFns == 3              \* Function objects that exist when the Runtime is constructed
MaxTurns == 1            \* model responses of one agent run that may request tools
MaxCalls == 2            \* tool-use requests in one model response
MaxTokens == 1           \* largest token count in one usage record
MaxResponses == 2        \* responses with tool calls explored under UsageSpec
MonitorNodes == 2        \* number of invoke() calls explored under MonitorSpec
AllocNodes == 3          \* number of invoke() calls explored under AllocSpec
AllocThreads == 2        \* threads that call invoke() concurrently under AllocSpec
MutexNodes == 2          \* number of invoke() calls explored under MutexSpec
LongCalls == 1           \* tool-use requests in each response of the runs that reach the cap

\* ------------------------------------------------------------- constants
NoParent == -1           \* Node.parent is None
NoneVal == "None"        \* Python None for outputs / exception
MAX_STEPS == 64          \* tool call + response cycles before giving up

NodeIds == 0 .. (MaxNodes - 1)
Fns == 1 .. MaxFns       \* Function objects, numbered in the reverse order of construction
NotAFunction == 0        \* an object that is not a Function
FnNames == {"a", "b", "c"}\* values of Function.name
Threads == 1 .. AllocThreads    \* threads that call invoke()
Unregistered == -1       \* _fn_by_name has no entry under the name
Scopes == {"TopLevel", "Self", "Parent"}    \* SessionScope
BagKeys == {"k1", "k2"}  \* (namespace, key) pairs of get_or_put
NoBags == [TopLevel |-> NoParent, Self |-> NoParent, Parent |-> NoParent]
NoCall == [scope |-> NoneVal, key |-> NoneVal, bag |-> NoParent]
Values == {"v42"}        \* return values of code callables
Errors == {"nope"}       \* exceptions raised by code callables
\* TokenUsage() as constructed in GeminiAgentNode.__init__
NoUsage == [input_tokens_cache_read |-> 0, input_tokens_regular |-> 0,
            input_tokens_total |-> 0, output_tokens_reasoning |-> NoParent,
            output_tokens_text |-> NoParent, output_tokens_total |-> 0]
TerminalStates == {"Success", "Error", "Canceled"}
PostableStates == {"Waiting", "Running", "Success", "Error", "Canceled"}

VARIABLES
    next_node_id,   \* Runtime._next_node_id
    nodes_by_id,    \* keys of Runtime._nodes_by_id
    roots,          \* Runtime._roots (ids, in order)
    global_seqno,   \* Runtime._global_seqno
    obs,            \* Runtime._node_observables: id -> [touch_seqno, view]
    parent,         \* Node.parent   (NoParent for a root)
    children,       \* Node.children (ids, in order)
    state,          \* Node.state
    outputs,        \* Node.outputs
    exception,      \* Node.exception
    done,           \* Node.done (Event)
    phase,          \* position of the invoking thread / of the node's worker
    retval,         \* value the node's callable returned / raised (worker local)
    created_at,     \* history: global seqnum at which the node was registered
    touches,        \* history: number of times the node's observable was refreshed after creation
    assert_ok,      \* FALSE once `assert observable.touch_seqno <= seq` failed
    wpc,            \* watcher thread: "idle", "waiting", "woken", "returned"
    wnode,          \* watcher thread: node passed to watch()
    wasof,          \* watcher thread: as_of_seq passed to watch()
    wview,          \* watcher thread: <<view>> returned by the last watch(), or <<>>
    lock_node,      \* node whose post_* call holds Runtime._lock, or NoParent
    lock_pc,        \* index in PostOrder of the next statement of that call, or 0
    log,            \* records emitted through logging.error
    cancel_token,   \* Node.cancel_token: id of the token the node polls
    token_link,     \* token -> the parent's token it is linked to, or NoParent
    token_set,      \* tokens that are set
    cancel_req,     \* history: the token passed to the last request_cancel
    apc,            \* agent worker: position in GeminiAgentNode.run
    astep,          \* agent worker: iterations of `for _ in range(MAX_STEPS)` begun
    calls,          \* agent worker: `calls` of the current turn
    ci,             \* agent worker: index of the spawn loop / of the await loop
    tchild,         \* agent worker: `children`, per call "None" or the child's state
    invoke_exceptions, \* agent worker: `invoke_exceptions`
    tool_use_ids,   \* agent worker: `tool_use_ids`
    result_parts,   \* agent worker: `result_parts`
    pending_agent_ex, \* agent worker: `pending_agent_ex`
    tool_call_counter, \* GeminiAgentNode._tool_call_counter
    fc_ids,         \* the provider of the agent's client sets FunctionCall.id
    transcript,     \* Node.transcript of the agent node
    completed,      \* history: the tool children of the turn in the order they ended
    contents,       \* agent worker: roles of the replay conversation `contents`
    astate,         \* Node.state of the agent node
    aoutputs,       \* Node.outputs of the agent node
    aexception,     \* Node.exception of the agent node
    acancel,        \* the agent node's cancel token is set
    providers,      \* keys of Runtime._providers (adapter classes looked up so far)
    invoke_err,     \* caller of invoke: the last call [fn, inputs_ok, provider, err]
    fn_name,        \* Function.name of each Function object
    fn_uses,        \* Function.uses of each Function object
    specs,          \* `specs` passed to Runtime(...)
    queue,          \* Runtime.__init__: the BFS queue
    functions,      \* Runtime._functions
    fn_by_name,     \* Runtime._fn_by_name: name -> Function object or NoneVal
    reg_pc,         \* Runtime.__init__: "idle", "bfs", "ok", "ValueError", "TypeError"
    object_bags,    \* RunContext.object_bags of each node: scope -> owner of the bag
    bag_store,      \* SessionBag contents of each node: key -> object, <<>> if absent
    bag_lock,       \* SessionBag lock of each node: the node whose call holds it
    factory_count,  \* history: per bag and key, how often a factory has run
    gop_pc,         \* get_or_put call of each node's worker: where it is
    gop_call,       \* its arguments and the bag it resolved: [scope, key, bag]
    gop_ret,        \* the object its call returned
    mutex,          \* Runtime._lock: the thread that holds it, or NoParent
    msec,           \* the `with self._lock:` block the holder is in
    waits_on,       \* worker of each node: the child whose done-signal it waits for
    provider_call,  \* worker of each node: it is inside a call of the provider
    alloc_pc,       \* thread in invoke: "idle", "locked", "read"
    alloc_id,       \* thread in invoke: its local `node_id`
    issued,         \* history: the values of `node_id` that invokes have read, in order
    mfinal,         \* monitor thread: it has left its loop (final snapshot)
    token_usage     \* GeminiAgentNode._token_usage

rtVars == <<next_node_id, nodes_by_id, roots, global_seqno, obs, assert_ok>>
nodeVars == <<parent, children, state, outputs, exception, done>>
threadVars == <<phase, retval>>
histVars == <<created_at, touches>>
watchVars == <<wpc, wnode, wasof, wview>>
stepVars == <<lock_node, lock_pc, log>>
coreVars == <<rtVars, nodeVars, threadVars, histVars, watchVars>>
cancelVars == <<cancel_token, token_link, token_set, cancel_req>>
loopVars == <<apc, astep, calls, ci, tchild, invoke_exceptions, tool_use_ids,
              result_parts, pending_agent_ex, tool_call_counter, contents, fc_ids>>
agentVars == <<loopVars, transcript, astate, aoutputs, aexception, acancel, completed>>
invokeVars == <<providers, invoke_err>>
regVars == <<fn_name, fn_uses, specs, queue, functions, fn_by_name, reg_pc>>
bagVars == <<object_bags, bag_store, bag_lock, factory_count, gop_pc, gop_call, gop_ret>>
mutexVars == <<mutex, msec, waits_on, provider_call>>
allocVars == <<alloc_pc, alloc_id, issued>>
sideVars == <<mutexVars, allocVars, mfinal, token_usage>>
extVars == <<stepVars, cancelVars, agentVars, invokeVars, regVars, bagVars, sideVars>>
vars == <<coreVars, extVars>>

\* ---------------------------------------------------------------- helpers
Put(f, k, v) == [f EXCEPT ![k] = v]

\* The mutable fields of all constructed nodes, as one heap value.
Heap(st, out, exc, ch, par) ==
    [state |-> st, outputs |-> out, exception |-> exc, children |-> ch, parent |-> par]

\* Faulty variants of the seqnum bump: by two, and not at all
BumpSeqno_twice(s) == s + 2
BumpSeqno_none(s) == s

\* self._global_seqno += 1
BumpSeqno(s) == s + 1

\* Faulty variants of the refresh test: skipping an observable touched by
\* the previous publish, and refreshing one that is already current
NeedsRefresh_skip(touch, seq) == touch + 1 < seq
NeedsRefresh_le(touch, seq) == touch <= seq

\* `if observable.touch_seqno < seq:` in _publish_tree_update
NeedsRefresh(touch, seq) == touch < seq

\* Faulty variant of the walk: it stops after the mutated node
NextUp_stop(H, cur) == NoParent

\* `current = current.parent` in _publish_tree_update
NextUp(H, cur) == H.parent[cur]

\* Faulty variants of the wait condition: strict, and off by one
WatchBlocked_lt(touch, as_of) == touch < as_of
WatchBlocked_off(touch, as_of) == touch <= as_of + 1

\* `while observable.touch_seqno <= as_of_seq:` in watch
WatchBlocked(touch, as_of) == touch <= as_of

\* NodeView of a node that has no observable, and the missing observable
NoView == [id |-> NoParent, state |-> NoneVal, outputs |-> NoneVal, exception |-> NoneVal,
           children |-> <<>>, update_seqnum |-> 0]
NoObs == [touch_seqno |-> -1, view |-> NoView]
\* `self._node_observables.get(node.id)` is not None
HasObs(ob, n) == ob[n] # NoObs

RECURSIVE ensure_observable(_, _, _, _)
RECURSIVE EnsureAll(_, _, _, _, _)

\* _ensure_observable for ch[i..] in order (the generator in _build_node_view)
EnsureAll(H, ob, seq, ch, i) ==
    IF i > Len(ch) THEN ob
    ELSE EnsureAll(H, ensure_observable(H, ob, seq, ch[i]), seq, ch, i + 1)

\* Faulty variant of the view: stamped with the observable's previous seqnum
NodeView_stale(H, ob, seq, n) ==
    [id |-> n,
     state |-> H.state[n],
     outputs |-> H.outputs[n],
     exception |-> H.exception[n],
     children |-> [i \in 1 .. Len(H.children[n]) |-> ob[H.children[n][i]].view],
     update_seqnum |-> IF ob[n].touch_seqno >= 0 THEN ob[n].touch_seqno ELSE seq]

\* The NodeView record built from the node's fields and its children's
\* observables, all of which exist in ob.
NodeView(H, ob, seq, n) ==
    [id |-> n,
     state |-> H.state[n],
     outputs |-> H.outputs[n],
     exception |-> H.exception[n],
     children |-> [i \in 1 .. Len(H.children[n]) |-> ob[H.children[n][i]].view],
     update_seqnum |-> seq]

\* Runtime._build_node_view: returns the view; obs after creating missing
\* child observables is EnsureAll(H, ob, seq, H.children[n], 1).
build_node_view(H, ob, seq, n) ==
    NodeView(H, EnsureAll(H, ob, seq, H.children[n], 1), seq, n)

\* Runtime._ensure_observable: returns the observable map, with an observable
\* for n (and, through _build_node_view, for its children) created if missing.
ensure_observable(H, ob, seq, n) ==
    IF HasObs(ob, n) THEN ob
    ELSE LET ob1 == EnsureAll(H, ob, seq, H.children[n], 1)
         IN  Put(ob1, n, [touch_seqno |-> seq,
                          view |-> build_node_view(H, ob, seq, n)])

RECURSIVE publish_walk(_, _, _, _, _, _)
\* The loop of Runtime._publish_tree_update from node cur upwards.
\* Result: the new observable map, the set of nodes whose condition was
\* notified, and whether the assertion held.
publish_walk(H, ob, seq, cur, notified, ok) ==
    IF cur = NoParent
    THEN [obs |-> ob, notified |-> notified, ok |-> ok]
    ELSE LET ob1 == ensure_observable(H, ob, seq, cur)
             touch == ob1[cur].touch_seqno
             ok1 == ok /\ (touch <= seq)
         IN  IF NeedsRefresh(touch, seq)
             THEN LET ob2 == EnsureAll(H, ob1, seq, H.children[cur], 1)
                      ob3 == [ob2 EXCEPT ![cur] =
                                 [touch_seqno |-> seq,
                                  view |-> build_node_view(H, ob1, seq, cur)]]
                  IN  publish_walk(H, ob3, seq, NextUp(H, cur), notified \cup {cur}, ok1)
             ELSE publish_walk(H, ob1, seq, NextUp(H, cur), notified, ok1)

\* Runtime._publish_tree_update(node) with seq = self._global_seqno
publish_tree_update(H, ob, seq, n) == publish_walk(H, ob, seq, n, {}, TRUE)

\* Faulty variant of the publish: every waiting watcher is woken
NotifyAll_every(pc, node, notified) ==
    IF pc = "waiting" /\ notified # {} THEN "woken" ELSE pc

\* Faulty variant of the publish: the condition is not notified
NotifyAll_none(pc, node, notified) == pc

\* observable.cond.notify_all(): a watcher waiting on a notified node is woken
NotifyAll(pc, node, notified) ==
    IF pc = "waiting" /\ node \in notified THEN "woken" ELSE pc

\* Effects of a publish on the observables, the waiting watcher and the
\* refresh counters.  H is the heap after the caller's field assignments.
Published(H, seq, n) ==
    LET r == publish_tree_update(H, obs, seq, n)
    IN  /\ obs' = r.obs
        /\ assert_ok' = (assert_ok /\ r.ok)
        /\ wpc' = NotifyAll(wpc, wnode, r.notified)
        /\ touches' = [m \in NodeIds |->
                          IF m \in r.notified THEN touches[m] + 1 ELSE touches[m]]

Init ==
    /\ next_node_id = 0
    /\ nodes_by_id = {}
    /\ roots = <<>>
    /\ global_seqno = 0
    /\ obs = [n \in NodeIds |-> NoObs]
    /\ parent = [n \in NodeIds |-> NoParent]
    /\ children = [n \in NodeIds |-> <<>>]
    /\ state = [n \in NodeIds |-> NoneVal]
    /\ outputs = [n \in NodeIds |-> NoneVal]
    /\ exception = [n \in NodeIds |-> NoneVal]
    /\ done = [n \in NodeIds |-> FALSE]
    /\ phase = [n \in NodeIds |-> "none"]
    /\ retval = [n \in NodeIds |-> NoneVal]
    /\ created_at = [n \in NodeIds |-> 0]
    /\ touches = [n \in NodeIds |-> 0]
    /\ assert_ok = TRUE
    /\ wpc = "idle"
    /\ wnode = NoParent
    /\ wasof = 0
    /\ wview = <<>>
    /\ lock_node = NoParent
    /\ lock_pc = 0
    /\ log = {}
    /\ cancel_token = [n \in NodeIds |-> NoParent]
    /\ token_link = [n \in NodeIds |-> NoParent]
    /\ token_set = {}
    /\ cancel_req = NoParent
    /\ apc = "start"
    /\ astep = 0
    /\ calls = <<>>
    /\ ci = 0
    /\ tchild = <<>>
    /\ invoke_exceptions = <<>>
    /\ tool_use_ids = <<>>
    /\ result_parts = <<>>
    /\ pending_agent_ex = NoneVal
    /\ tool_call_counter = 0
    /\ fc_ids = FALSE
    /\ transcript = <<>>
    /\ contents = <<>>
    /\ astate = "Running"
    /\ aoutputs = NoneVal
    /\ aexception = NoneVal
    /\ acancel = FALSE
    /\ completed = <<>>
    /\ providers = {}
    /\ invoke_err = [call |-> [fn |-> NoneVal, inputs_ok |-> TRUE, provider |-> NoneVal],
                     err |-> NoneVal]
    /\ fn_name = [f \in Fns |-> "a"]
    /\ fn_uses = [f \in Fns |-> {}]
    /\ specs = <<>>
    /\ queue = <<>>
    /\ functions = <<>>
    /\ fn_by_name = [nm \in FnNames |-> Unregistered]
    /\ reg_pc = "idle"
    /\ object_bags = [n \in NodeIds |-> NoBags]
    /\ bag_store = [n \in NodeIds |-> [k \in BagKeys |-> <<>>]]
    /\ bag_lock = [n \in NodeIds |-> NoParent]
    /\ factory_count = [n \in NodeIds |-> [k \in BagKeys |-> 0]]
    /\ gop_pc = [n \in NodeIds |-> "idle"]
    /\ gop_call = [n \in NodeIds |-> NoCall]
    /\ gop_ret = [n \in NodeIds |-> <<>>]
    /\ mutex = NoParent
    /\ msec = NoneVal
    /\ waits_on = [n \in NodeIds |-> NoParent]
    /\ provider_call = [n \in NodeIds |-> FALSE]
    /\ alloc_pc = [t \in Threads |-> "idle"]
    /\ alloc_id = [t \in Threads |-> NoParent]
    /\ issued = <<>>
    /\ mfinal = FALSE
    /\ token_usage = NoUsage

\* ------------------------------------------------------- runtime operations
\* The worker thread of caller is inside a ctx.invoke() call of its own.
Busy(p) == \E c \in NodeIds : parent[c] = p /\ phase[c] \in {"constructed", "registered"}

\* Nodes whose invoke or whose worker is still in progress
Active == {n \in NodeIds : phase[n] \notin {"none", "finished"}}

\* Runtime.invoke up to the construction of the node: lookup, validation,
\* allocation of the node id under the mutex, construction of the Node.
\* caller is NoParent for a top-level invoke, else a node whose worker runs.
NodeConstruct(id, caller) ==
    /\ \/ caller = NoParent
       \/ /\ caller \in NodeIds
          /\ phase[caller] = "running"
          /\ ~Busy(caller)
    /\ parent' = Put(parent, id, caller)
    /\ children' = Put(children, id, <<>>)
    /\ state' = Put(state, id, "Waiting")
    /\ outputs' = Put(outputs, id, NoneVal)
    /\ exception' = Put(exception, id, NoneVal)
    /\ done' = Put(done, id, FALSE)
    /\ phase' = Put(phase, id, "constructed")
    /\ retval' = Put(retval, id, NoneVal)
    /\ created_at' = Put(created_at, id, 0)
    /\ touches' = Put(touches, id, 0)
    /\ UNCHANGED <<nodes_by_id, roots, global_seqno, obs, assert_ok, watchVars>>

\* The same with the allocation block taken as one step
NodeAlloc(caller) ==
    /\ next_node_id < MaxNodes
    /\ next_node_id' = next_node_id + 1
    /\ NodeConstruct(next_node_id, caller)

\* Runtime.invoke up to the construction of the node, while fewer than
\* MaxActive nodes are in progress
InvokeAlloc(caller) ==
    /\ Cardinality(Active) < MaxActive
    /\ NodeAlloc(caller)

\* Faulty variant of the link: the new child goes to the front
AppendChild_front(ch, n) == <<n>> \o ch

\* `caller.children.append(node)`
AppendChild(ch, n) == Append(ch, n)

\* Runtime.list_toplevel_views()
list_toplevel_views == [i \in 1 .. Len(roots) |-> obs[roots[i]].view]

\* Runtime.invoke, the registration block: node table, roots / caller's
\* children, seqnum bump, publish.
InvokeRegister(n) ==
    /\ phase[n] = "constructed"
    /\ LET seq == BumpSeqno(global_seqno)
           ch == IF parent[n] = NoParent THEN children
                 ELSE [children EXCEPT ![parent[n]] = AppendChild(@, n)]
       IN  /\ nodes_by_id' = nodes_by_id \cup {n}
           /\ roots' = IF parent[n] = NoParent THEN Append(roots, n) ELSE roots
           /\ children' = ch
           /\ global_seqno' = seq
           /\ Published(Heap(state, outputs, exception, ch, parent), seq, n)
           /\ created_at' = [created_at EXCEPT ![n] = seq]
    /\ phase' = [phase EXCEPT ![n] = "registered"]
    /\ UNCHANGED <<next_node_id, parent, state, outputs, exception, done, retval,
                   wnode, wasof, wview>>

\* Runtime.post_status_update(node, state)
post_status_update(n, s) ==
    LET seq == BumpSeqno(global_seqno)
        st == [state EXCEPT ![n] = s]
    IN  /\ global_seqno' = seq
        /\ state' = st
        /\ Published(Heap(st, outputs, exception, children, parent), seq, n)
        /\ UNCHANGED <<next_node_id, nodes_by_id, roots, parent, children,
                       outputs, exception, done, created_at, wnode, wasof, wview>>

\* Faulty variant: the view is built between the two assignments
post_success_torn(n, v) ==
    LET seq == BumpSeqno(global_seqno)
        out == [outputs EXCEPT ![n] = v]
        st == [state EXCEPT ![n] = "Success"]
    IN  /\ global_seqno' = seq
        /\ outputs' = out
        /\ state' = st
        /\ Published(Heap(state, out, exception, children, parent), seq, n)
        /\ done' = [done EXCEPT ![n] = TRUE]
        /\ UNCHANGED <<next_node_id, nodes_by_id, roots, parent, children,
                       exception, created_at, wnode, wasof, wview>>

\* Runtime.post_success(node, outputs)
post_success(n, v) ==
    LET seq == BumpSeqno(global_seqno)
        out == [outputs EXCEPT ![n] = v]
        st == [state EXCEPT ![n] = "Success"]
    IN  /\ global_seqno' = seq
        /\ outputs' = out
        /\ state' = st
        /\ Published(Heap(st, out, exception, children, parent), seq, n)
        /\ done' = [done EXCEPT ![n] = TRUE]
        /\ UNCHANGED <<next_node_id, nodes_by_id, roots, parent, children,
                       exception, created_at, wnode, wasof, wview>>

\* Runtime.post_exception(node, exception)
post_exception(n, e) ==
    LET seq == BumpSeqno(global_seqno)
        exc == [exception EXCEPT ![n] = e]
        st == [state EXCEPT ![n] = "Error"]
    IN  /\ global_seqno' = seq
        /\ exception' = exc
        /\ state' = st
        /\ Published(Heap(st, outputs, exc, children, parent), seq, n)
        /\ done' = [done EXCEPT ![n] = TRUE]
        /\ UNCHANGED <<next_node_id, nodes_by_id, roots, parent, children,
                       outputs, created_at, wnode, wasof, wview>>

\* ------------------------------------------------------------ node workers
\* node.start() at the end of Runtime.invoke: the node is posted as Running
\* and its worker thread is spawned.
Start(n) ==
    /\ phase[n] = "registered"
    /\ post_status_update(n, "Running")
    /\ phase' = [phase EXCEPT ![n] = "running"]
    /\ UNCHANGED retval

\* Code node worker: the callable returned v; post success.
WorkerReturn(n, v) ==
    /\ phase[n] = "running"
    /\ ~Busy(n)
    /\ post_success(n, v)
    /\ phase' = [phase EXCEPT ![n] = "finished"]
    /\ retval' = [retval EXCEPT ![n] = v]

\* Code node worker: the callable raised e; post the exception.
WorkerRaise(n, e) ==
    /\ phase[n] = "running"
    /\ ~Busy(n)
    /\ post_exception(n, e)
    /\ phase' = [phase EXCEPT ![n] = "finished"]
    /\ retval' = [retval EXCEPT ![n] = e]

\* ------------------------------------------------------------------ watch
\* as_of_seq values a caller passes: the default 0 or the node's current
\* last-touched seqnum.
AsOfChoices(n) == {0, obs[n].touch_seqno}

\* Runtime.watch up to its return or its first Condition.wait()
WatchCall(n, a) ==
    /\ wpc = "idle"
    /\ HasObs(obs, n)
    /\ wnode' = n
    /\ wasof' = a
    /\ IF WatchBlocked(obs[n].touch_seqno, a)
       THEN wpc' = "waiting" /\ wview' = <<>>
       ELSE wpc' = "returned" /\ wview' = <<obs[n].view>>
    /\ UNCHANGED <<rtVars, nodeVars, threadVars, histVars>>

\* Runtime.watch after notify_all: the mutex is re-acquired and the loop
\* condition is tested again.
WatchRetest ==
    /\ wpc = "woken"
    /\ IF WatchBlocked(obs[wnode].touch_seqno, wasof)
       THEN wpc' = "waiting" /\ wview' = <<>>
       ELSE wpc' = "returned" /\ wview' = <<obs[wnode].view>>
    /\ UNCHANGED <<wnode, wasof, rtVars, nodeVars, threadVars, histVars>>

WatchWake == WatchRetest /\ UNCHANGED extVars

\* The caller of watch() is done with the returned view and ready for a
\* new, unrelated call.
WatchDone ==
    /\ wpc = "returned"
    /\ wpc' = "idle"
    /\ wnode' = NoParent
    /\ wasof' = 0
    /\ wview' = <<>>
    /\ UNCHANGED <<rtVars, nodeVars, threadVars, histVars, extVars>>

\* The watcher loop of start_tree_str_view: `view = node.watch(as_of_seq=prev)`
\* on one node; wasof holds prev between the calls.
TrackCall(n) ==
    /\ wnode \in {NoParent, n}
    /\ WatchCall(n, wasof)

\* `prev = view.update_seqnum`, and the loop ends on a Success / Error view.
TrackConsume ==
    /\ wpc = "returned"
    /\ wasof' = wview[1].update_seqnum
    /\ wpc' = IF wview[1].state \in {"Success", "Error"} THEN "stopped" ELSE "idle"
    /\ UNCHANGED <<wnode, wview, rtVars, nodeVars, threadVars, histVars, extVars>>

\* The monitor thread of perf_demo.monitor_with_nodeview on the root r;
\* wasof holds its local as_of_seq between the calls.
\* `while not root.is_done:` is tested: the loop goes on, or is left
MonitorTest(r) ==
    /\ wpc = "idle"
    /\ ~mfinal
    /\ HasObs(obs, r)
    /\ wnode \in {NoParent, r}
    /\ wnode' = r
    /\ mfinal' = done[r]
    /\ wpc' = "calling"
    /\ UNCHANGED <<wasof, wview, rtVars, nodeVars, threadVars, histVars>>

\* as_of_seq + 1, as the monitor passes it
MonitorAsOf(last_seen) == last_seen + 1

\* `root.watch(as_of_seq=as_of_seq+1)` in the loop and after it, up to its
\* return or its first wait
MonitorWatch ==
    /\ wpc = "calling"
    /\ IF WatchBlocked(obs[wnode].touch_seqno, MonitorAsOf(wasof))
       THEN wpc' = "waiting" /\ wview' = <<>>
       ELSE wpc' = "returned" /\ wview' = <<obs[wnode].view>>
    /\ UNCHANGED <<wnode, wasof, mfinal, rtVars, nodeVars, threadVars, histVars>>

\* the wait of that call is over: the loop condition of watch is tested again
MonitorWake ==
    /\ wpc = "woken"
    /\ IF WatchBlocked(obs[wnode].touch_seqno, MonitorAsOf(wasof))
       THEN wpc' = "waiting" /\ wview' = <<>>
       ELSE wpc' = "returned" /\ wview' = <<obs[wnode].view>>
    /\ UNCHANGED <<wnode, wasof, mfinal, rtVars, nodeVars, threadVars, histVars>>

\* `as_of_seq = view.update_seqnum` and the next iteration, or, after the
\* final snapshot, the end of the monitor
MonitorConsume ==
    /\ wpc = "returned"
    /\ IF mfinal
       THEN wpc' = "stopped" /\ UNCHANGED wasof
       ELSE wpc' = "idle" /\ wasof' = wview[1].update_seqnum
    /\ UNCHANGED <<wnode, wview, mfinal, rtVars, nodeVars, threadVars, histVars>>

\* ------------------------------------------- direct calls of the runtime API
\* Runtime.post_status_update / post_success / post_exception called on a
\* registered node by any holder of the Runtime (they are public methods and
\* test no precondition).
ApiPostStatus(n, s) ==
    /\ n \in nodes_by_id
    /\ global_seqno < MaxSeq
    /\ post_status_update(n, s)
    /\ UNCHANGED threadVars

ApiPostSuccess(n, v) ==
    /\ n \in nodes_by_id
    /\ global_seqno < MaxSeq
    /\ post_success(n, v)
    /\ UNCHANGED threadVars

ApiPostException(n, e) ==
    /\ n \in nodes_by_id
    /\ global_seqno < MaxSeq
    /\ post_exception(n, e)
    /\ UNCHANGED threadVars

\* ------------------------------------- post_* one statement at a time
\* node.done and node.exception are read by result() without the runtime
\* mutex, so the order of the statements inside post_success and
\* post_exception is visible to the thread that awaits the node.
CancellationException == "CancellationException"
StepErrors == Errors \cup {CancellationException}

\* Faulty variant of the order: the done-signal is set before the publish
PostOrder_signal_first == <<"mutate", "signal", "publish">>

\* The statements of post_success / post_exception inside `with self._lock:`
\* bump + field assignments, _publish_tree_update(node), node.done.set()
PostOrder == <<"mutate", "publish", "signal">>

\* Faulty variant of the log record: it does not name the node
LogRecord_anonymous(n, e) == [node |-> NoParent, exception |-> e]

\* logging.error(f"Node {node.id} ({node.fn.name}) faulted: {exception}")
LogRecord(n, e) == [node |-> n, exception |-> e]

\* The worker of n calls post_success(v) (v a value) or post_exception(v)
\* (v an exception) and acquires the runtime mutex.
PostBegin(n, v) ==
    /\ lock_node = NoParent
    /\ phase[n] = "running"
    /\ ~Busy(n)
    /\ lock_node' = n
    /\ lock_pc' = 1
    /\ phase' = [phase EXCEPT ![n] = "posting"]
    /\ retval' = [retval EXCEPT ![n] = v]
    /\ UNCHANGED <<rtVars, nodeVars, histVars, watchVars, log, cancelVars, agentVars,
                   invokeVars, regVars, bagVars, sideVars>>

\* The next statement of the post_* call that holds the mutex; after the
\* last one the mutex is released.
PostStep ==
    /\ lock_node # NoParent
    /\ LET n == lock_node
           v == retval[n]
           stmt == PostOrder[lock_pc]
           last == lock_pc = Len(PostOrder)
       IN  /\ CASE stmt = "mutate" ->
                     /\ global_seqno' = BumpSeqno(global_seqno)
                     /\ IF v \in Values
                        THEN /\ outputs' = [outputs EXCEPT ![n] = v]
                             /\ state' = [state EXCEPT ![n] = "Success"]
                             /\ UNCHANGED exception
                        ELSE /\ exception' = [exception EXCEPT ![n] = v]
                             /\ state' = [state EXCEPT ![n] = "Error"]
                             /\ UNCHANGED outputs
                     /\ UNCHANGED <<obs, assert_ok, wpc, touches, done>>
                [] stmt = "publish" ->
                     /\ Published(Heap(state, outputs, exception, children, parent),
                                  global_seqno, n)
                     /\ UNCHANGED <<global_seqno, state, outputs, exception, done>>
                [] stmt = "signal" ->
                     /\ done' = [done EXCEPT ![n] = TRUE]
                     /\ UNCHANGED <<global_seqno, state, outputs, exception,
                                    obs, assert_ok, wpc, touches>>
           /\ lock_pc' = IF last THEN 0 ELSE lock_pc + 1
           /\ lock_node' = IF last THEN NoParent ELSE n
           /\ phase' = IF ~last THEN phase
                       ELSE [phase EXCEPT ![n] =
                                IF v \in Values THEN "finished" ELSE "posted"]
    /\ UNCHANGED <<next_node_id, nodes_by_id, roots, parent, children, retval,
                   created_at, wnode, wasof, wview, log, cancelVars, agentVars,
                   invokeVars, regVars, bagVars, sideVars>>

\* post_exception after the mutex is released: the log record
PostLog(n) ==
    /\ phase[n] = "posted"
    /\ log' = log \cup {LogRecord(n, exception[n])}
    /\ phase' = [phase EXCEPT ![n] = "finished"]
    /\ UNCHANGED <<rtVars, nodeVars, retval, histVars, watchVars, lock_node, lock_pc,
                   cancelVars, agentVars, invokeVars, regVars, bagVars, sideVars>>

\* Node.result(): waits for the done-signal, then re-raises the stored
\* exception or returns the outputs.
result(n) ==
    IF ~done[n] THEN <<"blocked">>
    ELSE IF exception[n] # NoneVal THEN <<"raise", exception[n]>>
    ELSE <<"return", outputs[n]>>

\* ------------------------------------------------------ cancel tokens
\* A token is named by the id of the node it was created for: a root's
\* token, or the distinct token a child was invoked with.
RECURSIVE UpChain(_, _)
\* Token t and the tokens it is linked to, upwards
UpChain(link, t) == IF t = NoParent THEN {} ELSE {t} \cup UpChain(link, link[t])

\* Faulty variant of the link: it also cancels upwards
Downlinked_both(link, t) ==
    {u \in NodeIds : t \in UpChain(link, u) \/ u \in UpChain(link, t)}

\* Token t and the tokens linked below it: setting t sets all of them
Downlinked(link, t) == {u \in NodeIds : t \in UpChain(link, u)}

\* ctx.cancel_requested() of node n
cancel_requested(n) == cancel_token[n] \in token_set

\* ctx.invoke(fn, inputs, cancel_event=...): own says the child is given a
\* distinct token, which is linked to the caller's; a root always gets a
\* token of its own (supplied by the caller or allocated).
CtxInvoke(caller, own) ==
    /\ InvokeAlloc(caller)
    /\ LET id == next_node_id
           distinct == own /\ caller # NoParent
           tok == IF own \/ caller = NoParent THEN id ELSE cancel_token[caller]
       IN  /\ cancel_token' = Put(cancel_token, id, tok)
           /\ token_link' = IF distinct THEN Put(token_link, id, cancel_token[caller])
                            ELSE token_link
           /\ token_set' = IF distinct /\ cancel_token[caller] \in token_set
                           THEN token_set \cup {id}
                           ELSE token_set
    /\ UNCHANGED <<cancel_req, stepVars, agentVars, invokeVars, regVars, bagVars, sideVars>>

\* ctx.request_cancel() / cancel_evt.set() on token t
RequestCancel(t) ==
    /\ \E n \in NodeIds : phase[n] # "none" /\ cancel_token[n] = t
    /\ t \notin token_set
    /\ token_set' = token_set \cup Downlinked(token_link, t)
    /\ cancel_req' = t
    /\ UNCHANGED <<coreVars, stepVars, agentVars, invokeVars, regVars, bagVars, sideVars, cancel_token,
                   token_link>>

\* ------------------------------------------------- agent loop (Gemini)
\* One agent node running GeminiAgentNode.run.  The provider's responses and
\* the outcomes of the tool children are the inputs.
AgentUses == {"echo"}                       \* names in agent_fn.uses
\* function calls the model may request: a declared tool, a declared tool
\* with arguments that fail validation, an undeclared tool
CallChoices ==
    {[name |-> "echo", args_ok |-> TRUE],
     [name |-> "echo", args_ok |-> FALSE],
     [name |-> "ghost", args_ok |-> TRUE]}
CallLists == UNION {[1 .. k -> CallChoices] : k \in 1 .. MaxCalls}
\* how a tool child ends: its result() returns, or raises a generic
\* exception, the agent-abort exception or the cancellation exception
ChildOutcomes == {"Success", "boom", "AgentException", CancellationException}

\* str(result) and AgentNode.stringify_exception(ex)
Str(x) == <<"str", x>>

UserTextPart(t) ==
    [kind |-> "UserText", id |-> NoneVal, name |-> NoneVal, text |-> t, is_error |-> FALSE]
\* Faulty variant: the part does not carry the text
ModelTextPart_blank(t) ==
    [kind |-> "ModelText", id |-> NoneVal, name |-> NoneVal, text |-> "", is_error |-> FALSE]
ModelTextPart(t) ==
    [kind |-> "ModelText", id |-> NoneVal, name |-> NoneVal, text |-> t, is_error |-> FALSE]
ToolUsePart(id, name) ==
    [kind |-> "ToolUse", id |-> id, name |-> name, text |-> NoneVal, is_error |-> FALSE]
ToolResultPart(id, name, out, err) ==
    [kind |-> "ToolResult", id |-> id, name |-> name, text |-> out, is_error |-> err]
ThinkingBlockPart(sig) ==
    [kind |-> "ThinkingBlock", id |-> NoneVal, name |-> NoneVal, text |-> sig, is_error |-> FALSE]

\* thought signatures one candidate may carry
SigCounts == {0, 1}

\* Faulty variant: the signatures replace the last part
append_thought_signatures_over(tr, n) ==
    IF n = 0 \/ tr = <<>> THEN tr
    ELSE [tr EXCEPT ![Len(tr)] = ThinkingBlockPart("sig")]

\* GeminiAgentNode._append_thought_signatures for a candidate whose parts
\* carry n thought signatures
append_thought_signatures(tr, n) ==
    tr \o [i \in 1 .. n |-> ThinkingBlockPart("sig")]

\* Faulty variant: the id does not carry the counter
new_tool_use_id_static(counter, name) == <<"gemini", name>>

\* GeminiAgentNode._new_tool_use_id with the counter already incremented
new_tool_use_id(counter, name) == <<"gemini", counter, name>>

\* fc.id of the k-th call of the step-th response, when the provider sets it
ProviderId(step, k) == <<"fc", step, k>>

\* `x or 0` of an optional count (NoParent stands for None)
Or0(x) == IF x = NoParent THEN 0 ELSE x

\* resp.usage_metadata: prompt_token_count is read as a number, the other
\* counts may be absent
TokenCounts == 0 .. MaxTokens
UsageMetadata ==
    [cached_content_token_count : TokenCounts \cup {NoParent},
     prompt_token_count : TokenCounts,
     tool_use_prompt_token_count : TokenCounts \cup {NoParent},
     thoughts_token_count : TokenCounts \cup {NoParent},
     candidates_token_count : TokenCounts \cup {NoParent}]

\* Faulty variant: the cached tokens are counted as regular input too
accumulate_usage_cached(tu, usage) ==
    LET cache_read == Or0(usage.cached_content_token_count)
        prompt_tokens == usage.prompt_token_count
        tool_prompt_tokens == Or0(usage.tool_use_prompt_token_count)
        reasoning_tokens == Or0(usage.thoughts_token_count)
        text_tokens == Or0(usage.candidates_token_count)
    IN  [input_tokens_cache_read |-> tu.input_tokens_cache_read + cache_read,
         input_tokens_regular |-> tu.input_tokens_regular + (prompt_tokens + tool_prompt_tokens),
         input_tokens_total |-> tu.input_tokens_total + prompt_tokens + tool_prompt_tokens,
         output_tokens_reasoning |-> Or0(tu.output_tokens_reasoning) + reasoning_tokens,
         output_tokens_text |-> Or0(tu.output_tokens_text) + text_tokens,
         output_tokens_total |-> tu.output_tokens_total + reasoning_tokens + text_tokens]

\* _accumulate_usage(usage): the TokenUsage after the response
accumulate_usage(tu, usage) ==
    LET cache_read == Or0(usage.cached_content_token_count)
        prompt_tokens == usage.prompt_token_count
        tool_prompt_tokens == Or0(usage.tool_use_prompt_token_count)
        reasoning_tokens == Or0(usage.thoughts_token_count)
        text_tokens == Or0(usage.candidates_token_count)
    IN  [input_tokens_cache_read |-> tu.input_tokens_cache_read + cache_read,
         input_tokens_regular |-> tu.input_tokens_regular
                                    + ((prompt_tokens + tool_prompt_tokens) - cache_read),
         input_tokens_total |-> tu.input_tokens_total + prompt_tokens + tool_prompt_tokens,
         output_tokens_reasoning |-> Or0(tu.output_tokens_reasoning) + reasoning_tokens,
         output_tokens_text |-> Or0(tu.output_tokens_text) + text_tokens,
         output_tokens_total |-> tu.output_tokens_total + reasoning_tokens + text_tokens]

\* `self._accumulate_usage(resp.usage_metadata)` right after generate_content
AccumulateUsage(usage) ==
    /\ apc = "in_call"
    /\ token_usage' = accumulate_usage(token_usage, usage)

\* The ModelProviderException that carries the RuntimeError raised in run()
ModelProviderException(inner) ==
    IF inner = "MAX_STEPS"
    THEN "ModelProviderException: Gemini tool loop exceeded MAX_STEPS without producing a final answer."
    ELSE "ModelProviderException: Gemini returned no candidates."

\* The run wrapper of the agent node: an exception that escapes run() is
\* posted as the node's exception, wrapped as a model-provider error.
RunRaises(inner) ==
    /\ apc' = "done"
    /\ astate' = "Error"
    /\ aexception' = ModelProviderException(inner)
    /\ UNCHANGED aoutputs

\* run() up to the loop: the user prompt opens transcript and conversation
AgentStart(ids) ==
    /\ apc = "start"
    /\ fc_ids' = ids
    /\ transcript' = Append(transcript, UserTextPart("prompt"))
    /\ contents' = <<"user">>
    /\ apc' = "loop"
    /\ UNCHANGED <<astep, calls, ci, tchild, invoke_exceptions, tool_use_ids,
                   result_parts, pending_agent_ex, tool_call_counter,
                   astate, aoutputs, aexception, acancel, completed>>

\* Faulty variant of the loop bound: one iteration more
InRange_inclusive(step) == step <= MAX_STEPS

\* `for _ in range(MAX_STEPS):` has another iteration after `step` of them
InRange(step) == step < MAX_STEPS

\* `for _ in range(MAX_STEPS):` and the call of generate_content, or the
\* RuntimeError after the loop
AgentCallModel ==
    /\ apc = "loop"
    /\ IF InRange(astep)
       THEN /\ astep' = astep + 1
            /\ apc' = "in_call"
            /\ UNCHANGED <<astate, aoutputs, aexception>>
       ELSE /\ RunRaises("MAX_STEPS")
            /\ UNCHANGED astep
    /\ UNCHANGED <<calls, ci, tchild, invoke_exceptions, tool_use_ids, result_parts,
                   pending_agent_ex, tool_call_counter, fc_ids, transcript, contents, acancel, completed>>

\* The response has no candidates
AgentNoCandidates ==
    /\ apc = "in_call"
    /\ RunRaises("no candidates")
    /\ UNCHANGED <<astep, calls, ci, tchild, invoke_exceptions, tool_use_ids,
                   result_parts, pending_agent_ex, tool_call_counter, fc_ids, transcript,
                   contents, acancel, completed>>

\* The response carries no function call: finalize with the assistant text
AgentFinalText(t, sigs) ==
    /\ apc = "in_call"
    /\ contents' = Append(contents, "model")
    /\ transcript' = Append(append_thought_signatures(transcript, sigs), ModelTextPart(t))
    /\ astate' = "Success"
    /\ aoutputs' = t
    /\ apc' = "done"
    /\ UNCHANGED <<astep, calls, ci, tchild, invoke_exceptions, tool_use_ids,
                   result_parts, pending_agent_ex, tool_call_counter, fc_ids, aexception, acancel, completed>>

\* The response carries the function calls cs
ToolCallsResponse(cs, sigs) ==
    /\ apc = "in_call"
    /\ contents' = Append(contents, "model")
    /\ calls' = cs
    /\ result_parts' = <<>>
    /\ tchild' = <<>>
    /\ invoke_exceptions' = <<>>
    /\ tool_use_ids' = <<>>
    /\ ci' = 1
    /\ apc' = "spawn"
    /\ completed' = <<>>
    /\ transcript' = append_thought_signatures(transcript, sigs)
    /\ UNCHANGED <<astep, pending_agent_ex, tool_call_counter, fc_ids,
                   astate, aoutputs, aexception, acancel>>

\* The response carries the function calls cs, in one of the first MaxTurns
\* responses of the run
AgentToolCalls(cs, sigs) ==
    /\ astep <= MaxTurns
    /\ ToolCallsResponse(cs, sigs)

\* invoke_tool_function(name, args): the exception it raises, or NoneVal
\* when the child node is created
invoke_tool_function(fc) ==
    IF fc.name \notin AgentUses THEN <<"UnknownTool", fc.name>>
    ELSE IF ~fc.args_ok THEN "ArgumentValidationError"
    ELSE NoneVal

\* Faulty variant: a child node is recorded for every request
SpawnedChild_always(ex) == "Running"

\* The entry of `children` for a request: the started child when
\* invoke_tool_function returned it, None when it raised ex
SpawnedChild(ex) == IF ex = NoneVal THEN "Running" ELSE NoneVal

\* The invokes of the earlier requests have returned: invoke starts the
\* child's worker and returns the node without waiting for it
InvokeReturned(ch) == TRUE

\* Faulty variant: the wait starts after the first request
AfterSpawn_first(i, n) == "await"

\* Where the worker goes after the i-th of n iterations of `for fc in calls:`
AfterSpawn(i, n) == IF i = n THEN "await" ELSE "spawn"

\* One iteration of `for fc in calls:`; after the last one the await loop
\* starts with pending_agent_ex = None.
AgentSpawn ==
    /\ apc = "spawn"
    /\ InvokeReturned(tchild)
    /\ LET fc == calls[ci]
           id == IF fc_ids THEN ProviderId(astep, ci)
                 ELSE new_tool_use_id(tool_call_counter + 1, fc.name)
           ex == invoke_tool_function(fc)
       IN  /\ tool_call_counter' = IF fc_ids THEN tool_call_counter
                                   ELSE tool_call_counter + 1
           /\ tool_use_ids' = Append(tool_use_ids, id)
           /\ transcript' = Append(transcript, ToolUsePart(id, fc.name))
           /\ tchild' = Append(tchild, SpawnedChild(ex))
           /\ invoke_exceptions' = Append(invoke_exceptions, ex)
    /\ IF AfterSpawn(ci, Len(calls)) = "await"
       THEN ci' = 1 /\ apc' = "await" /\ pending_agent_ex' = NoneVal
       ELSE ci' = ci + 1 /\ apc' = "spawn" /\ UNCHANGED pending_agent_ex
    /\ UNCHANGED <<astep, calls, result_parts, contents, astate, aoutputs,
                   aexception, acancel, completed, fc_ids>>

\* The worker of the i-th tool child of the turn ends; it raises the
\* cancellation exception only after it saw the shared token set.
ToolChildEnds(i, o) ==
    /\ i \in 1 .. Len(tchild)
    /\ tchild[i] = "Running"
    /\ o = CancellationException => acancel
    /\ tchild' = [tchild EXCEPT ![i] = o]
    /\ completed' = Append(completed, i)
    /\ UNCHANGED <<apc, astep, calls, ci, invoke_exceptions, tool_use_ids,
                   result_parts, pending_agent_ex, tool_call_counter, fc_ids, transcript,
                   contents, astate, aoutputs, aexception, acancel>>

\* Faulty variants of the clause: it catches every exception of a child,
\* and none
IsAgentException_any(o) == o # "Success"
IsAgentException_none(o) == FALSE

\* `except AgentException as ex:`
IsAgentException(o) == o = "AgentException"

\* Faulty variant: the lists are walked from their ends
Zip_reversed(cs, ch, exs, ids) ==
    [i \in 1 .. Len(cs) |->
        [fc |-> cs[Len(cs) + 1 - i], child |-> ch[Len(cs) + 1 - i],
         invoke_ex |-> exs[Len(cs) + 1 - i], tool_use_id |-> ids[Len(cs) + 1 - i]]]

\* zip(calls, children, invoke_exceptions, tool_use_ids)
Zip(cs, ch, exs, ids) ==
    [i \in 1 .. Len(cs) |->
        [fc |-> cs[i], child |-> ch[i], invoke_ex |-> exs[i], tool_use_id |-> ids[i]]]

\* One iteration of the WaitAll loop: child.result() has returned or raised
AgentAwait ==
    /\ apc = "await"
    /\ LET z == Zip(calls, tchild, invoke_exceptions, tool_use_ids)[ci]
           fc == z.fc
           id == z.tool_use_id
           invoke_ex == z.invoke_ex
           o == z.child
           skip == invoke_ex = NoneVal /\ IsAgentException(o)
           is_error == invoke_ex # NoneVal \/ o # "Success"
           out_text == IF invoke_ex # NoneVal THEN Str(invoke_ex)
                       ELSE IF o = "Success" THEN Str("hi")
                       ELSE Str(o)
       IN  /\ invoke_ex = NoneVal => o # "Running"
           /\ IF skip
              THEN /\ pending_agent_ex' = o
                   /\ UNCHANGED <<transcript, result_parts>>
              ELSE /\ transcript' = Append(transcript,
                                           ToolResultPart(id, fc.name, out_text, is_error))
                   /\ result_parts' = Append(result_parts, id)
                   /\ UNCHANGED pending_agent_ex
    /\ IF ci = Len(calls)
       THEN ci' = 0 /\ apc' = "batch_end"
       ELSE ci' = ci + 1 /\ apc' = "await"
    /\ UNCHANGED <<astep, calls, tchild, invoke_exceptions, tool_use_ids,
                   tool_call_counter, fc_ids, contents, astate, aoutputs, aexception, acancel, completed>>

\* After the WaitAll loop: post the pending abort, or append the aggregated
\* tool message and loop
AgentBatchEnd ==
    /\ apc = "batch_end"
    /\ IF pending_agent_ex # NoneVal
       THEN /\ astate' = "Error"
            /\ aexception' = pending_agent_ex
            /\ apc' = "done"
            /\ UNCHANGED contents
       ELSE /\ contents' = Append(contents, "tool")
            /\ apc' = "loop"
            /\ UNCHANGED <<astate, aexception>>
    /\ UNCHANGED <<astep, calls, ci, tchild, invoke_exceptions, tool_use_ids,
                   result_parts, pending_agent_ex, tool_call_counter, fc_ids, transcript,
                   aoutputs, acancel, completed>>

\* Another thread sets the cancel token of the agent node
AgentCancel ==
    /\ ~acancel
    /\ apc # "done"
    /\ acancel' = TRUE
    /\ UNCHANGED <<loopVars, transcript, astate, aoutputs, aexception, completed>>

\* ------------------------------------------- invoke: lookup and dispatch
\* Function objects a caller may pass to invoke.  RegisteredFns are the
\* objects the Runtime was constructed with; "double_twin" is another object
\* with the name of "double", "stray" has a name the Runtime does not know.
FnObjects == {"double", "double_twin", "agentG", "agentA", "stray"}
RegisteredFns == {"double", "agentG", "agentA"}
FnName(f) == IF f = "double_twin" THEN "double" ELSE f
FnKind(f) == IF f \in {"agentG", "agentA"} THEN "AgentFunction" ELSE "CodeFunction"
\* AgentFunction.default_model
DefaultModel(f) == IF f = "agentG" THEN "Gemini" ELSE "Anthropic"

\* Provider tags, the ones get_AgentNode_impl has an adapter for, and the
\* ones the Runtime was given a client factory for
Providers == {"OpenAI", "Anthropic", "Gemini"}
ImplementedProviders == {"Anthropic", "Gemini"}
ClientFactories == {"Gemini"}

\* self._fn_by_name.get(fn.name)
fn_by_name_get(name) ==
    IF \E g \in RegisteredFns : FnName(g) = name
    THEN CHOOSE g \in RegisteredFns : FnName(g) = name
    ELSE NoneVal

\* Faulty variant of the identity test: the names are compared
RegIsSame_by_name(reg_fn, fn) == FnName(reg_fn) = FnName(fn)

\* `reg_fn is not fn`, negated
RegIsSame(reg_fn, fn) == reg_fn = fn

\* Faulty variant of the factory lookup: a missing factory is not noticed
HasFactory_any(p) == TRUE

\* `self._client_factories.get(provider)` is not None
HasFactory(p) == p \in ClientFactories

\* The checks of invoke before the node id is allocated: the exception
\* raised, or NoneVal
InvokePrecheck(fn, inputs_ok) ==
    LET reg_fn == fn_by_name_get(FnName(fn))
    IN  IF reg_fn = NoneVal THEN "ValueError: not registered"
        ELSE IF ~RegIsSame(reg_fn, fn) THEN "ValueError: shares a name"
        ELSE IF ~inputs_ok THEN "ArgumentValidationError"
        ELSE NoneVal

\* provider = provider or fn.default_model
EffectiveProvider(fn, provider) ==
    IF provider # NoneVal THEN provider ELSE DefaultModel(fn)

\* The dispatch on the Function subtype after the node id is allocated: the
\* exception raised, or NoneVal
InvokeDispatch(fn, provider, cache) ==
    IF FnKind(fn) = "CodeFunction"
    THEN IF provider # NoneVal THEN "ValueError: provider override" ELSE NoneVal
    ELSE LET p == EffectiveProvider(fn, provider)
         IN  IF p \notin cache /\ p \notin ImplementedProviders THEN "NotImplementedError"
             ELSE IF ~HasFactory(p) THEN "ValueError: no client factory"
             ELSE NoneVal

\* Runtime._providers after the dispatch
ProvidersAfter(fn, provider, cache) ==
    IF FnKind(fn) = "AgentFunction"
          /\ EffectiveProvider(fn, provider) \in ImplementedProviders
    THEN cache \cup {EffectiveProvider(fn, provider)}
    ELSE cache

\* Runtime.invoke(caller, fn, inputs, provider) up to the construction of
\* the node or to the exception it raises
InvokeCall(caller, fn, inputs_ok, provider) ==
    /\ \/ caller = NoParent
       \/ /\ caller \in NodeIds
          /\ phase[caller] = "running"
          /\ ~Busy(caller)
    /\ LET pre == InvokePrecheck(fn, inputs_ok)
           post == InvokeDispatch(fn, provider, providers)
           call == [fn |-> fn, inputs_ok |-> inputs_ok, provider |-> provider]
       IN  IF pre # NoneVal
           THEN /\ invoke_err' = [call |-> call, err |-> pre]
                /\ UNCHANGED <<coreVars, providers>>
           ELSE IF post # NoneVal
           THEN /\ next_node_id < MaxNodes
                /\ next_node_id' = next_node_id + 1
                /\ providers' = ProvidersAfter(fn, provider, providers)
                /\ invoke_err' = [call |-> call, err |-> post]
                /\ UNCHANGED <<nodes_by_id, roots, global_seqno, obs, assert_ok,
                               nodeVars, threadVars, histVars, watchVars>>
           ELSE /\ InvokeAlloc(caller)
                /\ providers' = ProvidersAfter(fn, provider, providers)
                /\ invoke_err' = [call |-> call, err |-> NoneVal]
    /\ UNCHANGED <<stepVars, cancelVars, agentVars, regVars, bagVars, sideVars>>

\* ------------------------------------------------------- session bags
RECURSIVE RootOf(_, _)
\* `while current.parent is not None: current = current.parent`
RootOf(par, n) == IF par[n] = NoParent THEN n ELSE RootOf(par, par[n])

\* Faulty variant of the walk: it stops at the immediate parent
TopLevelBag_parent(par, n) == IF par[n] = NoParent THEN n ELSE par[n]

\* Owner of the bag under SessionScope.TopLevel
TopLevelBag(par, n) == RootOf(par, n)

\* Faulty variant: a root gets its own bag under SessionScope.Parent
ParentBag_self(par, n) == IF par[n] = NoParent THEN n ELSE par[n]

\* Owner of the bag under SessionScope.Parent; NoParent when the key is absent
ParentBag(par, n) == par[n]

\* Runtime._build_session_bags(node)
build_session_bags(par, n) ==
    [TopLevel |-> TopLevelBag(par, n), Self |-> n, Parent |-> ParentBag(par, n)]

\* Runtime.invoke up to `ctx.object_bags = self._build_session_bags(node)`
InvokeWithBags(caller) ==
    /\ NodeAlloc(caller)
    /\ object_bags' = Put(object_bags, next_node_id,
                          build_session_bags(parent', next_node_id))
    /\ UNCHANGED <<bag_store, bag_lock, factory_count, gop_pc, gop_call, gop_ret>>

\* ctx.get_or_put(scope, namespace, key, factory) called by the worker of n,
\* once in a run: the scope is resolved; Parent on a root raises
\* NoParentSession.
GetOrPutCall(n, scope, key) ==
    /\ phase[n] = "running"
    /\ gop_pc[n] = "idle"
    /\ LET bag == object_bags[n][scope]
       IN  /\ gop_call' = Put(gop_call, n, [scope |-> scope, key |-> key, bag |-> bag])
           /\ gop_pc' = Put(gop_pc, n, IF bag = NoParent THEN "NoParentSession"
                                       ELSE "waiting")
    /\ UNCHANGED <<object_bags, bag_store, bag_lock, factory_count, gop_ret>>

\* Faulty variant of the bag lock: callers never wait for each other
LockFree_always(holder) == TRUE

\* The bag's lock can be taken
LockFree(holder) == holder = NoParent

\* SessionBag.get_or_put: the caller takes the bag's lock and looks the key
\* up; a stored object is returned at once, else the factory is to be run
\* with the lock held.
GetOrPutEnter(n) ==
    /\ gop_pc[n] = "waiting"
    /\ LET bag == gop_call[n].bag
           key == gop_call[n].key
       IN  /\ LockFree(bag_lock[bag])
           /\ IF bag_store[bag][key] # <<>>
              THEN /\ gop_ret' = Put(gop_ret, n, bag_store[bag][key])
                   /\ gop_pc' = Put(gop_pc, n, "returned")
                   /\ UNCHANGED bag_lock
              ELSE /\ bag_lock' = Put(bag_lock, bag, n)
                   /\ gop_pc' = Put(gop_pc, n, "factory")
                   /\ UNCHANGED gop_ret
    /\ UNCHANGED <<object_bags, bag_store, factory_count, gop_call>>

\* SessionBag.get_or_put: the factory runs and returns a new object, which is
\* stored and returned; the lock is released.
GetOrPutFactory(n) ==
    /\ gop_pc[n] = "factory"
    /\ LET bag == gop_call[n].bag
           key == gop_call[n].key
           made == <<factory_count[bag][key] + 1>>
       IN  /\ factory_count' = [factory_count EXCEPT ![bag][key] = @ + 1]
           /\ bag_store' = [bag_store EXCEPT ![bag][key] = made]
           /\ gop_ret' = Put(gop_ret, n, made)
           /\ bag_lock' = Put(bag_lock, bag, NoParent)
    /\ gop_pc' = Put(gop_pc, n, "returned")
    /\ UNCHANGED <<object_bags, gop_call>>

\* --------------------------------------------- Runtime.__init__: registry
RECURSIVE SeqOf(_)
\* The elements of a set of Function objects as a list
SeqOf(S) ==
    IF S = {} THEN <<>>
    ELSE LET m == CHOOSE x \in S : \A y \in S : x <= y
         IN  <<m>> \o SeqOf(S \ {m})

\* Function objects are immutable and name their dependencies when they are
\* constructed, so an object only uses objects constructed before it.
UsesChoices == {u \in [Fns -> SUBSET Fns] : \A f \in Fns : \A g \in u[f] : g > f}
SpecLists == UNION {[1 .. k -> Fns \cup {NotAFunction}] : k \in 0 .. 2}

\* Faulty variant of the identity test: any object under the name passes
SameFn_any(reg_fn, fn) == TRUE

\* `self._fn_by_name[fn.name] is fn`
SameFn(reg_fn, fn) == reg_fn = fn

\* Runtime(specs=..., client_factories=...) up to the BFS loop
RegBegin(names, uses, sp) ==
    /\ reg_pc = "idle"
    /\ fn_name' = names
    /\ fn_uses' = uses
    /\ specs' = sp
    /\ functions' = sp
    /\ queue' = sp
    /\ fn_by_name' = [nm \in FnNames |-> Unregistered]
    /\ reg_pc' = "bfs"

\* One iteration of `while queue:`; on an empty queue the constructor ends
RegStep ==
    /\ reg_pc = "bfs"
    /\ IF queue = <<>>
       THEN /\ reg_pc' = "ok"
            /\ UNCHANGED <<queue, functions, fn_by_name>>
       ELSE LET fn == Head(queue)
            IN  IF fn = NotAFunction
                THEN /\ reg_pc' = "TypeError"
                     /\ queue' = Tail(queue)
                     /\ UNCHANGED <<functions, fn_by_name>>
                ELSE IF fn_by_name[fn_name[fn]] # Unregistered
                THEN /\ queue' = Tail(queue)
                     /\ reg_pc' = IF SameFn(fn_by_name[fn_name[fn]], fn)
                                  THEN "bfs" ELSE "ValueError"
                     /\ UNCHANGED <<functions, fn_by_name>>
                ELSE /\ functions' = Append(functions, fn)
                     /\ fn_by_name' = [fn_by_name EXCEPT ![fn_name[fn]] = fn]
                     /\ queue' = Tail(queue) \o SeqOf(fn_uses[fn])
                     /\ reg_pc' = "bfs"
    /\ UNCHANGED <<fn_name, fn_uses, specs>>

\* ------------------------------------------------- the runtime mutex
\* Every `with self._lock:` block taken in two steps: the thread acquires
\* the mutex, then runs the block and releases it.  The thread in invoke()
\* of node n and the worker of n are named n; one more thread calls watch,
\* get_view and list_toplevel_views.
WatcherThread == MaxNodes

\* The worker of n is neither in child.result() nor in a provider call
Unblocked(n) == waits_on[n] = NoParent /\ ~provider_call[n]

\* Faulty variant: the wait keeps the mutex
CondWait_held(holder) == holder

\* observable.cond.wait() releases the mutex while the thread waits
CondWait(holder) == NoParent

\* Faulty variant: the mutex excludes nobody
MutexFree_always(holder) == TRUE

\* Lock.acquire() returns when no thread holds the mutex
MutexFree(holder) == holder = NoParent

\* `with self._lock:` is entered by thread t for the block sec
LockAcquire(t, sec) ==
    /\ MutexFree(mutex)
    /\ mutex' = t
    /\ msec' = sec
    /\ UNCHANGED <<waits_on, provider_call>>

\* the end of the block sec of thread t
LockRelease(t, sec) ==
    /\ mutex = t
    /\ msec = sec
    /\ mutex' = NoParent
    /\ msec' = NoneVal
    /\ UNCHANGED <<waits_on, provider_call>>

\* The blocks of invoke: allocation of the id, registration
AllocLock ==
    /\ next_node_id < MutexNodes
    /\ LockAcquire(next_node_id, "alloc")
    /\ UNCHANGED coreVars
AllocBlock ==
    /\ LockRelease(next_node_id, "alloc")
    /\ \E c \in {NoParent} \cup NodeIds :
          /\ c # NoParent => Unblocked(c)
          /\ NodeAlloc(c)
RegisterLock ==
    \E n \in NodeIds :
        /\ phase[n] = "constructed"
        /\ LockAcquire(n, "register")
        /\ UNCHANGED coreVars
RegisterBlock == \E n \in NodeIds : LockRelease(n, "register") /\ InvokeRegister(n)

\* The block of post_status_update, called by node.start()
StartLock ==
    \E n \in NodeIds :
        /\ phase[n] = "registered"
        /\ LockAcquire(n, "post_status_update")
        /\ UNCHANGED coreVars
StartBlock == \E n \in NodeIds : LockRelease(n, "post_status_update") /\ Start(n)

\* The blocks of post_success and post_exception, called by the worker
PostLock ==
    \E n \in NodeIds, sec \in {"post_success", "post_exception"} :
        /\ phase[n] = "running"
        /\ ~Busy(n)
        /\ Unblocked(n)
        /\ LockAcquire(n, sec)
        /\ UNCHANGED coreVars
PostBlock ==
    \E n \in NodeIds :
        \/ LockRelease(n, "post_success") /\ \E v \in Values : WorkerReturn(n, v)
        \/ LockRelease(n, "post_exception") /\ \E e \in Errors : WorkerRaise(n, e)

\* invoke() by thread t, the allocation block one statement at a time:
\* `with self._lock:`, `node_id = self._next_node_id`,
\* `self._next_node_id += 1` and the end of the block, then the
\* construction of the node with the local node_id.
IdLock(t) ==
    /\ alloc_pc[t] = "idle"
    /\ Len(issued) + Cardinality({u \in Threads : alloc_pc[u] = "locked"}) < AllocNodes
    /\ MutexFree(mutex)
    /\ mutex' = t
    /\ msec' = "alloc"
    /\ alloc_pc' = [alloc_pc EXCEPT ![t] = "locked"]
    /\ UNCHANGED <<coreVars, waits_on, provider_call, alloc_id, issued>>
IdRead(t) ==
    /\ alloc_pc[t] = "locked"
    /\ alloc_id' = [alloc_id EXCEPT ![t] = next_node_id]
    /\ issued' = Append(issued, next_node_id)
    /\ alloc_pc' = [alloc_pc EXCEPT ![t] = "read"]
    /\ UNCHANGED <<coreVars, mutexVars>>
IdIncr(t) ==
    /\ alloc_pc[t] = "read"
    /\ next_node_id' = next_node_id + 1
    /\ mutex' = IF mutex = t THEN NoParent ELSE mutex
    /\ msec' = IF mutex = t THEN NoneVal ELSE msec
    /\ alloc_pc' = [alloc_pc EXCEPT ![t] = "unlocked"]
    /\ UNCHANGED <<nodes_by_id, roots, global_seqno, obs, assert_ok, nodeVars, threadVars,
                   histVars, watchVars, waits_on, provider_call, alloc_id, issued>>
IdConstruct(t, caller) ==
    /\ alloc_pc[t] = "unlocked"
    /\ NodeConstruct(alloc_id[t], caller)
    /\ alloc_pc' = [alloc_pc EXCEPT ![t] = "idle"]
    /\ alloc_id' = [alloc_id EXCEPT ![t] = NoParent]
    /\ UNCHANGED <<next_node_id, mutexVars, issued>>

\* The worker of p calls child.result() and waits for the done-signal
ResultCall(p, c) ==
    /\ phase[p] = "running"
    /\ mutex # p
    /\ ~Busy(p)
    /\ Unblocked(p)
    /\ parent[c] = p
    /\ phase[c] \in {"running", "finished"}
    /\ waits_on' = [waits_on EXCEPT ![p] = c]
    /\ UNCHANGED <<coreVars, mutex, msec, provider_call>>
ResultReturn(p) ==
    /\ waits_on[p] # NoParent
    /\ result(waits_on[p])[1] # "blocked"
    /\ waits_on' = [waits_on EXCEPT ![p] = NoParent]
    /\ UNCHANGED <<coreVars, mutex, msec, provider_call>>

\* The worker of an agent node n calls generate_content, and the call returns
ProviderCall(n) ==
    /\ phase[n] = "running"
    /\ mutex # n
    /\ ~Busy(n)
    /\ Unblocked(n)
    /\ provider_call' = [provider_call EXCEPT ![n] = TRUE]
    /\ UNCHANGED <<coreVars, mutex, msec, waits_on>>
ProviderReturn(n) ==
    /\ provider_call[n]
    /\ provider_call' = [provider_call EXCEPT ![n] = FALSE]
    /\ UNCHANGED <<coreVars, mutex, msec, waits_on>>

\* The blocks of watch, get_view and list_toplevel_views
WatcherLock ==
    \E sec \in {"watch", "get_view", "list_toplevel_views"} :
        /\ wpc = "idle"
        /\ sec = "watch" => nodes_by_id # {}
        /\ LockAcquire(WatcherThread, sec)
        /\ UNCHANGED coreVars
RewatchLock ==
    /\ wpc = "woken"
    /\ LockAcquire(WatcherThread, "wait")
    /\ UNCHANGED coreVars
\* watch up to its return or to its wait, and after the wait
WatchBlock ==
    /\ mutex = WatcherThread
    /\ \/ msec = "watch" /\ \E n \in NodeIds : \E a \in AsOfChoices(n) : WatchCall(n, a)
       \/ msec = "wait" /\ WatchRetest
    /\ mutex' = IF wpc' = "waiting" THEN CondWait(mutex) ELSE NoParent
    /\ msec' = IF mutex' = NoParent THEN NoneVal ELSE msec
    /\ UNCHANGED <<waits_on, provider_call>>
\* Runtime.get_view(node_id): the view, or KeyError
GetViewBlock ==
    /\ LockRelease(WatcherThread, "get_view")
    /\ \E n \in NodeIds :
          /\ wnode' = n
          /\ wview' = IF n \in nodes_by_id THEN <<obs[n].view>> ELSE <<>>
    /\ wpc' = "returned"
    /\ UNCHANGED <<rtVars, nodeVars, threadVars, histVars, wasof>>
ListViewsBlock ==
    /\ LockRelease(WatcherThread, "list_toplevel_views")
    /\ wview' = list_toplevel_views
    /\ wpc' = "returned"
    /\ UNCHANGED <<rtVars, nodeVars, threadVars, histVars, wnode, wasof>>

\* -------------------------------------------------------- specifications
Invoke == \E c \in {NoParent} \cup NodeIds : InvokeAlloc(c) /\ UNCHANGED extVars
Register == \E n \in NodeIds : InvokeRegister(n) /\ UNCHANGED extVars
StartNode == \E n \in NodeIds : Start(n) /\ UNCHANGED extVars
Return == \E n \in NodeIds, v \in Values : WorkerReturn(n, v) /\ UNCHANGED extVars
Raise == \E n \in NodeIds, e \in Errors : WorkerRaise(n, e) /\ UNCHANGED extVars
Watch == \E n \in NodeIds : HasObs(obs, n) /\ \E a \in AsOfChoices(n) : WatchCall(n, a) /\ UNCHANGED extVars
Track == \E n \in NodeIds : TrackCall(n) /\ UNCHANGED extVars
PostStatus == \E n \in NodeIds, s \in PostableStates : ApiPostStatus(n, s) /\ UNCHANGED extVars
PostSuccess == \E n \in NodeIds, v \in Values : ApiPostSuccess(n, v) /\ UNCHANGED extVars
PostException == \E n \in NodeIds, e \in Errors : ApiPostException(n, e) /\ UNCHANGED extVars

\* The program: invokes, node workers, and a thread that calls watch().
\* WatchDone is local to the watcher thread and commutes with the steps of
\* the other threads, so it is scheduled before them.
Next ==
    \/ wpc # "returned" /\ Invoke
    \/ wpc # "returned" /\ Register
    \/ wpc # "returned" /\ StartNode
    \/ wpc # "returned" /\ Return
    \/ wpc # "returned" /\ Raise
    \/ Watch
    \/ WatchWake
    \/ WatchDone

Spec == Init /\ [][Next]_vars

\* The program with the tree_str watcher loop on at most LiveNodes nodes;
\* the operating system schedules the watcher thread fairly.
NextLive ==
    \/ next_node_id < LiveNodes /\ Invoke
    \/ Register
    \/ StartNode
    \/ Return
    \/ Raise
    \/ Track
    \/ WatchWake
    \/ TrackConsume

LiveSpec ==
    /\ Init
    /\ [][NextLive]_vars
    /\ WF_vars(Track)
    /\ WF_vars(WatchWake)
    /\ WF_vars(TrackConsume)

\* The runtime driven by its workers and by direct calls of post_*.
NextApi ==
    \/ Invoke
    \/ Register
    \/ StartNode
    \/ Return
    \/ Raise
    \/ PostStatus
    \/ PostSuccess
    \/ PostException

SpecApi == Init /\ [][NextApi]_vars

\* The program with post_success / post_exception taken one statement at a
\* time; every other operation needs the mutex to be free.
PostCall == \E n \in NodeIds, v \in Values \cup StepErrors : PostBegin(n, v)
PostLogged == \E n \in NodeIds : PostLog(n)

NextStep ==
    \/ lock_node = NoParent /\ next_node_id < StepNodes /\ Invoke
    \/ lock_node = NoParent /\ Register
    \/ lock_node = NoParent /\ StartNode
    \/ PostCall
    \/ PostStep
    \/ PostLogged

StepSpec == Init /\ [][NextStep]_vars

\* The program with cancel tokens: invokes with and without a token of
\* their own, and cancellation requests from any thread.
InvokeToken == \E c \in {NoParent} \cup NodeIds, own \in BOOLEAN : CtxInvoke(c, own)
Cancel == \E t \in NodeIds : RequestCancel(t)

NextCancel ==
    \/ next_node_id < CancelNodes /\ InvokeToken
    \/ Register
    \/ StartNode
    \/ Return
    \/ Raise
    \/ Cancel

CancelSpec == Init /\ [][NextCancel]_vars

\* One agent node: the loop, its tool children and a cancelling thread
StartAgent == \E ids \in BOOLEAN : AgentStart(ids) /\ UNCHANGED <<coreVars, stepVars, cancelVars, invokeVars, regVars, bagVars, sideVars>>
CallModel == AgentCallModel /\ UNCHANGED <<coreVars, stepVars, cancelVars, invokeVars, regVars, bagVars, sideVars>>
NoCandidates == AgentNoCandidates /\ UNCHANGED <<coreVars, stepVars, cancelVars, invokeVars, regVars, bagVars, sideVars>>
FinalText == AgentFinalText("done", 0) /\ UNCHANGED <<coreVars, stepVars, cancelVars, invokeVars, regVars, bagVars, sideVars>>
ToolCalls == \E cs \in CallLists : AgentToolCalls(cs, 0) /\ UNCHANGED <<coreVars, stepVars, cancelVars, invokeVars, regVars, bagVars, sideVars>>
Spawn == AgentSpawn /\ UNCHANGED <<coreVars, stepVars, cancelVars, invokeVars, regVars, bagVars, sideVars>>
ChildEnds ==
    \E i \in 1 .. MaxCalls, o \in ChildOutcomes :
        ToolChildEnds(i, o) /\ UNCHANGED <<coreVars, stepVars, cancelVars, invokeVars, regVars, bagVars, sideVars>>
Await == AgentAwait /\ UNCHANGED <<coreVars, stepVars, cancelVars, invokeVars, regVars, bagVars, sideVars>>
BatchEnd == AgentBatchEnd /\ UNCHANGED <<coreVars, stepVars, cancelVars, invokeVars, regVars, bagVars, sideVars>>
CancelAgent == AgentCancel /\ UNCHANGED <<coreVars, stepVars, cancelVars, invokeVars, regVars, bagVars, sideVars>>

NextAgent ==
    \/ StartAgent
    \/ CallModel
    \/ NoCandidates
    \/ FinalText
    \/ ToolCalls
    \/ Spawn
    \/ ChildEnds
    \/ Await
    \/ BatchEnd
    \/ CancelAgent

AgentSpec == Init /\ [][NextAgent]_vars

\* The program with the mutex taken and released in separate steps.
\* WatcherDone is local to the watcher thread and commutes with the steps of
\* the other threads, so it is scheduled before them.
MxOther == <<stepVars, cancelVars, agentVars, invokeVars, regVars, bagVars, allocVars,
             mfinal, token_usage>>
InvokeLocks == (AllocLock \/ RegisterLock) /\ UNCHANGED MxOther
InvokeBlocks == (AllocBlock \/ RegisterBlock) /\ UNCHANGED MxOther
PostLocks == (StartLock \/ PostLock) /\ UNCHANGED MxOther
PostBlocks == (StartBlock \/ PostBlock) /\ UNCHANGED MxOther
WatcherLocks == (WatcherLock \/ RewatchLock) /\ UNCHANGED MxOther
WatcherBlocks == (WatchBlock \/ GetViewBlock \/ ListViewsBlock) /\ UNCHANGED MxOther
WaitForChild == \E p, c \in NodeIds : ResultCall(p, c) /\ UNCHANGED MxOther
ChildSignalled == \E p \in NodeIds : ResultReturn(p) /\ UNCHANGED MxOther
CallProvider == \E n \in NodeIds : ProviderCall(n) /\ UNCHANGED MxOther
ProviderDone == \E n \in NodeIds : ProviderReturn(n) /\ UNCHANGED MxOther
WatcherDone == mutex # WatcherThread /\ WatchDone

\* The holder of the mutex runs its block to the end
MutexRelease == InvokeBlocks \/ PostBlocks \/ WatcherBlocks

NextMutex ==
    \/ wpc # "returned" /\ AllocLock /\ UNCHANGED MxOther
    \/ wpc # "returned" /\ RegisterLock /\ UNCHANGED MxOther
    \/ wpc # "returned" /\ StartLock /\ UNCHANGED MxOther
    \/ wpc # "returned" /\ PostLock /\ UNCHANGED MxOther
    \/ wpc # "returned" /\ WatcherLock /\ UNCHANGED MxOther
    \/ wpc # "returned" /\ RewatchLock /\ UNCHANGED MxOther
    \/ wpc # "returned" /\ AllocBlock /\ UNCHANGED MxOther
    \/ wpc # "returned" /\ RegisterBlock /\ UNCHANGED MxOther
    \/ wpc # "returned" /\ StartBlock /\ UNCHANGED MxOther
    \/ wpc # "returned" /\ PostBlock /\ UNCHANGED MxOther
    \/ wpc # "returned" /\ WatchBlock /\ UNCHANGED MxOther
    \/ wpc # "returned" /\ GetViewBlock /\ UNCHANGED MxOther
    \/ wpc # "returned" /\ ListViewsBlock /\ UNCHANGED MxOther
    \/ wpc # "returned" /\ WaitForChild
    \/ wpc # "returned" /\ ChildSignalled
    \/ wpc # "returned" /\ CallProvider
    \/ wpc # "returned" /\ ProviderDone
    \/ WatcherDone

MutexSpec == Init /\ [][NextMutex]_vars

\* Threads that call invoke concurrently, the allocation block taken one
\* statement at a time
AlOther == <<stepVars, cancelVars, agentVars, invokeVars, regVars, bagVars, mfinal,
             token_usage>>
LockForId == \E t \in Threads : IdLock(t) /\ UNCHANGED AlOther
ReadId == \E t \in Threads : IdRead(t) /\ UNCHANGED AlOther
IncrementId == \E t \in Threads : IdIncr(t) /\ UNCHANGED AlOther
ConstructNode ==
    \E t \in Threads, c \in {NoParent} \cup NodeIds : IdConstruct(t, c) /\ UNCHANGED AlOther

NextAlloc ==
    \/ LockForId
    \/ ReadId
    \/ IncrementId
    \/ ConstructNode
    \/ mutex = NoParent /\ Register
    \/ mutex = NoParent /\ StartNode

AllocSpec == Init /\ [][NextAlloc]_vars

\* The program with the NodeView monitor of perf_demo on the first root;
\* the operating system schedules the monitor and the workers fairly.
MnOther == <<stepVars, cancelVars, agentVars, invokeVars, regVars, bagVars, mutexVars,
             allocVars, token_usage>>
MonitorTests == MonitorTest(0) /\ UNCHANGED MnOther
MonitorWatches == MonitorWatch /\ UNCHANGED MnOther
MonitorWakes == MonitorWake /\ UNCHANGED MnOther
MonitorConsumes == MonitorConsume /\ UNCHANGED MnOther

NextMonitor ==
    \/ next_node_id < MonitorNodes /\ Invoke
    \/ Register
    \/ StartNode
    \/ Return
    \/ Raise
    \/ MonitorTests
    \/ MonitorWatches
    \/ MonitorWakes
    \/ MonitorConsumes

MonitorSpec ==
    /\ Init
    /\ [][NextMonitor]_vars
    /\ WF_vars(Register)
    /\ WF_vars(StartNode)
    /\ WF_vars(Return \/ Raise)
    /\ WF_vars(MonitorTests)
    /\ WF_vars(MonitorWatches)
    /\ WF_vars(MonitorWakes)
    /\ WF_vars(MonitorConsumes)

\* One agent node whose model returns candidates with and without thought
\* signatures; nothing cancels the node.
FinalTextSig ==
    \E sg \in SigCounts :
        AgentFinalText("done", sg) /\ UNCHANGED <<coreVars, stepVars, cancelVars, invokeVars, regVars, bagVars, sideVars>>
ToolCallsSig ==
    \E cs \in CallLists, sg \in SigCounts :
        AgentToolCalls(cs, sg) /\ UNCHANGED <<coreVars, stepVars, cancelVars, invokeVars, regVars, bagVars, sideVars>>

NextTranscript ==
    \/ StartAgent
    \/ CallModel
    \/ NoCandidates
    \/ FinalTextSig
    \/ ToolCallsSig
    \/ Spawn
    \/ ChildEnds
    \/ Await
    \/ BatchEnd

TranscriptSpec == Init /\ [][NextTranscript]_vars

\* One agent node whose model keeps requesting tools: every response that
\* requests tools requests LongCalls calls of the declared tool, and every
\* tool child succeeds.
LongCallLists == {[i \in 1 .. LongCalls |-> [name |-> "echo", args_ok |-> TRUE]]}
LongToolCalls ==
    \E cs \in LongCallLists :
        ToolCallsResponse(cs, 0) /\ UNCHANGED <<coreVars, stepVars, cancelVars, invokeVars, regVars, bagVars, sideVars>>
ChildSucceeds ==
    \E i \in 1 .. LongCalls :
        ToolChildEnds(i, "Success") /\ UNCHANGED <<coreVars, stepVars, cancelVars, invokeVars, regVars, bagVars, sideVars>>
\* generate_content returns a response
ModelReturns == NoCandidates \/ FinalText \/ LongToolCalls

NextExhaust ==
    \/ StartAgent
    \/ CallModel
    \/ NoCandidates
    \/ FinalText
    \/ LongToolCalls
    \/ Spawn
    \/ ChildSucceeds
    \/ Await
    \/ BatchEnd

\* The worker thread of the agent is scheduled, every model call returns and
\* every spawned child terminates.  workerPos is the position of the agent's
\* worker and of its children's workers; every step of NextExhaust changes it.
workerPos == <<apc, astep, ci, tchild>>
ExhaustSpec ==
    /\ Init
    /\ [][NextExhaust]_vars
    /\ WF_workerPos(StartAgent)
    /\ WF_workerPos(CallModel)
    /\ WF_workerPos(ModelReturns)
    /\ WF_workerPos(Spawn)
    /\ WF_workerPos(ChildSucceeds)
    /\ WF_workerPos(Await)
    /\ WF_workerPos(BatchEnd)

\* One agent node whose responses carry usage metadata; every tool call
\* succeeds and nothing cancels the node.
UsOther == <<coreVars, stepVars, cancelVars, invokeVars, regVars, bagVars, mutexVars,
             allocVars, mfinal>>
NoCandidatesUsage ==
    \E u \in UsageMetadata : AccumulateUsage(u) /\ AgentNoCandidates /\ UNCHANGED UsOther
FinalTextUsage ==
    \E u \in UsageMetadata : AccumulateUsage(u) /\ AgentFinalText("done", 0) /\ UNCHANGED UsOther
ToolCallsUsage ==
    \E u \in UsageMetadata, cs \in LongCallLists :
        /\ astep <= MaxResponses
        /\ AccumulateUsage(u)
        /\ ToolCallsResponse(cs, 0)
        /\ UNCHANGED UsOther

NextUsage ==
    \/ StartAgent
    \/ CallModel
    \/ NoCandidatesUsage
    \/ FinalTextUsage
    \/ ToolCallsUsage
    \/ Spawn
    \/ ChildSucceeds
    \/ Await
    \/ BatchEnd

UsageSpec == Init /\ [][NextUsage]_vars

\* The program with invoke called on any Function object, with valid or
\* invalid inputs and with or without a provider override
InvokeAny ==
    \E c \in {NoParent} \cup NodeIds, fn \in FnObjects, ok \in BOOLEAN,
       pr \in {NoneVal} \cup Providers :
        InvokeCall(c, fn, ok, pr)

NextInvoke ==
    \/ next_node_id < InvokeNodes /\ InvokeAny
    \/ Register
    \/ StartNode
    \/ Return
    \/ Raise

InvokeSpec == Init /\ [][NextInvoke]_vars

\* Construction of a Runtime from any set of Function objects
Construct ==
    /\ reg_pc = "idle"
    /\ \E names \in [Fns -> FnNames], uses \in UsesChoices, sp \in SpecLists :
        RegBegin(names, uses, sp)
           /\ UNCHANGED <<coreVars, stepVars, cancelVars, agentVars, invokeVars, bagVars, sideVars>>
RegisterNext == RegStep /\ UNCHANGED <<coreVars, stepVars, cancelVars, agentVars, invokeVars, bagVars, sideVars>>

NextReg ==
    \/ Construct
    \/ RegisterNext

RegSpec == Init /\ [][NextReg]_vars

\* The program with session bags: invokes build a tree, running workers call
\* get_or_put concurrently.
InvokeBags ==
    \E c \in {NoParent} \cup NodeIds :
        InvokeWithBags(c)
           /\ UNCHANGED <<stepVars, cancelVars, agentVars, invokeVars, regVars, sideVars>>
GetOrPut ==
    \E n \in NodeIds, scope \in Scopes, key \in BagKeys :
        GetOrPutCall(n, scope, key)
           /\ UNCHANGED <<coreVars, stepVars, cancelVars, agentVars, invokeVars, regVars, sideVars>>
BagEnter ==
    \E n \in NodeIds :
        GetOrPutEnter(n)
           /\ UNCHANGED <<coreVars, stepVars, cancelVars, agentVars, invokeVars, regVars, sideVars>>
BagFactory ==
    \E n \in NodeIds :
        GetOrPutFactory(n)
           /\ UNCHANGED <<coreVars, stepVars, cancelVars, agentVars, invokeVars, regVars, sideVars>>

\* The steps of an invoke touch no bag and the steps of get_or_put touch no
\* node, so the invokes are scheduled one after the other and before the
\* calls.
NextBag ==
    \/ /\ next_node_id < BagNodes
       /\ \A n \in NodeIds : phase[n] \in {"none", "running"} /\ gop_pc[n] = "idle"
       /\ InvokeBags
    \/ Register
    \/ StartNode
    \/ (\A n \in NodeIds : phase[n] \in {"none", "running"}) /\ GetOrPut
    \/ BagEnter
    \/ BagFactory

BagSpec == Init /\ [][NextBag]_vars

TypeOK ==
    /\ next_node_id \in 0 .. MaxNodes
    /\ nodes_by_id \subseteq NodeIds
    /\ \A n \in NodeIds : HasObs(obs, n) <=> n \in nodes_by_id
    /\ \A n \in NodeIds : state[n] \in PostableStates \cup {NoneVal}
    /\ wpc \in {"idle", "calling", "waiting", "woken", "returned", "stopped"}
    /\ assert_ok


\* ------------------------------------------------------ derived notions
RECURSIVE AncSelf(_)
\* n and its ancestors up to the root
AncSelf(n) == IF n = NoParent THEN {} ELSE {n} \cup AncSelf(parent[n])

\* The view of n that its fields and its children's observables describe now
CurrentView(n) ==
    [id |-> n,
     state |-> state[n],
     outputs |-> outputs[n],
     exception |-> exception[n],
     children |-> [i \in 1 .. Len(children[n]) |-> obs[children[n][i]].view],
     update_seqnum |-> obs[n].touch_seqno]

\* Node n is mutated by this step: it is registered, or a field of the
\* registered node changes.
Mutated(n) ==
    /\ n \in nodes_by_id'
    /\ \/ n \notin nodes_by_id
       \/ state'[n] # state[n]
       \/ outputs'[n] # outputs[n]
       \/ exception'[n] # exception[n]
       \/ children'[n] # children[n]

\* Some node of the subtree rooted at n is mutated by this step
SubtreeMutated(n) == \E x \in NodeIds : Mutated(x) /\ n \in AncSelf(x)'

LegalTransitions ==
    {<<NoneVal, "Waiting">>, <<"Waiting", "Running">>}
        \cup {<<"Running", t>> : t \in TerminalStates}

\* ------------------------------------------------------------------ claims

\* C1: under any sequence of invoke / post_status_update / post_success /
\* post_exception calls a node's state only moves Waiting -> Running ->
\* {Success, Error, Canceled}, and a terminal state never changes again.
StateMonotonicity ==
    [][\A n \in NodeIds :
          /\ state[n] \in TerminalStates => state'[n] = state[n]
          /\ state'[n] # state[n] => <<state[n], state'[n]>> \in LegalTransitions]_vars

\* C2: the global seqnum starts at 0, never decreases, grows by exactly one
\* with every registration and every post_*, and every refreshed view is
\* stamped with the new seqnum, which no earlier publish used.
SeqnumStep ==
    /\ global_seqno' \in {global_seqno, global_seqno + 1}
    /\ (\E n \in NodeIds : Mutated(n)) => global_seqno' = global_seqno + 1
    /\ \A n \in NodeIds :
          obs'[n] # obs[n] =>
              /\ global_seqno' = global_seqno + 1
              /\ obs'[n].touch_seqno = global_seqno'
              /\ obs'[n].view.update_seqnum = global_seqno'
              /\ obs[n].touch_seqno < global_seqno'
    /\ global_seqno' # global_seqno => \E n \in NodeIds : obs'[n] # obs[n]

SeqnumCountsMutations ==
    /\ global_seqno = 0
    /\ [][SeqnumStep]_vars

SeqnumWitness ==
    /\ global_seqno >= 4
    /\ \E n, m \in NodeIds : n # m /\ phase[n] = "running" /\ phase[m] = "running"

\* C3: right after a mutation of node X is published, the observable of X
\* and of every ancestor of X has last-touched seqnum equal to the global
\* seqnum and holds a rebuilt view.
AncestorRefresh ==
    [][\A x \in NodeIds :
          Mutated(x) =>
              \A a \in AncSelf(x)' :
                  /\ obs'[a].touch_seqno = global_seqno'
                  /\ obs'[a].view = CurrentView(a)'
                  /\ obs'[a].view.update_seqnum = global_seqno']_vars

AncestorRefreshWitness ==
    \E x \in NodeIds :
        /\ parent[x] # NoParent
        /\ parent[parent[x]] # NoParent
        /\ state[x] = "Running"
        /\ obs[x].touch_seqno = global_seqno
        /\ obs[parent[parent[x]]].touch_seqno = global_seqno

\* C4: watch(node, as_of_seq) never returns while the observable's
\* last-touched seqnum is <= as_of_seq, and the view it returns is the
\* observable's view, with update_seqnum > as_of_seq.
WatchReturnsNewer ==
    wpc = "returned" =>
        /\ obs[wnode].touch_seqno > wasof
        /\ wview = <<obs[wnode].view>>
        /\ wview[1].update_seqnum > wasof

WatchReturnsNewerWitness ==
    /\ wpc = "returned"
    /\ wasof > 0
    /\ wview[1].update_seqnum > wasof + 1

\* C5: a watcher that calls watch(node, prev) with prev the update_seqnum of
\* the view it received last (0 at first) receives views with strictly
\* increasing update_seqnum and, once the node is terminal, eventually a
\* view showing that terminal state.
TrackerReturn == wpc # "returned" /\ wpc' = "returned"

NoMissedUpdates ==
    /\ [][TrackerReturn =>
             /\ wview'[1].update_seqnum > wasof
             /\ wview'[1].id = wnode'
             /\ wasof' = wasof]_vars
    /\ [][wpc = "returned" /\ wpc' # "returned" =>
             wasof' = wview[1].update_seqnum]_vars
    /\ \A n \in NodeIds :
          (wnode = n /\ state[n] \in TerminalStates)
              ~> (wpc = "stopped" /\ wview[1].id = n /\ wview[1].state = state[n])

NoMissedUpdatesWitness ==
    /\ wpc = "stopped"
    /\ wview[1].state \in TerminalStates
    /\ wview[1].children # <<>>
    /\ touches[wnode] >= 3

\* C6: the view held by every observable describes the node's whole subtree
\* as it is: the node's state, outputs and exception, and for each child in
\* order the view held by the child's observable, stamped with the
\* last-touched seqnum; a view returned by watch is the observable's view.
RECURSIVE SubtreeSnapshot(_)
SubtreeSnapshot(n) ==
    [id |-> n,
     state |-> state[n],
     outputs |-> outputs[n],
     exception |-> exception[n],
     children |-> [i \in 1 .. Len(children[n]) |-> SubtreeSnapshot(children[n][i])],
     update_seqnum |-> obs[n].touch_seqno]

ConsistentCut ==
    /\ \A n \in nodes_by_id :
          /\ obs[n].view = SubtreeSnapshot(n)
          /\ obs[n].view.children =
                 [i \in 1 .. Len(children[n]) |-> obs[children[n][i]].view]
    /\ wpc = "returned" => wview[1] = SubtreeSnapshot(wnode)

ConsistentCutWitness ==
    \E n \in nodes_by_id :
        /\ Len(children[n]) = 2
        /\ state[children[n][1]] \in TerminalStates
        /\ state[children[n][2]] = "Running"
        /\ obs[n].view.children[1].state = state[children[n][1]]
        /\ obs[n].view.children[2].state = "Running"

\* The snapshot taken when node n was registered
CreationSnapshot(n) ==
    [id |-> n, state |-> "Waiting", outputs |-> NoneVal, exception |-> NoneVal,
     children |-> <<>>, update_seqnum |-> created_at[n]]

\* C7 as stated: watch(n, as_of_seq=0) never blocks and returns the
\* creation snapshot of the node.
WatchZeroReturnsCreationSnapshot ==
    /\ (wnode # NoParent /\ wasof = 0) => wpc = "returned"
    /\ (wpc = "returned" /\ wasof = 0) => wview[1] = CreationSnapshot(wnode)

\* C7 as amended: watch(n, as_of_seq=0) never blocks and returns the view
\* the node's observable holds at the time of the call, which is the
\* creation snapshot or a later one.
WatchZeroReturnsCurrentView ==
    /\ (wnode # NoParent /\ wasof = 0) => wpc = "returned"
    /\ (wpc = "returned" /\ wasof = 0) =>
          /\ wview[1] = obs[wnode].view
          /\ wview[1].update_seqnum >= created_at[wnode]
          /\ created_at[wnode] >= 1
          /\ (wview[1].update_seqnum = created_at[wnode]
                 <=> wview[1] = CreationSnapshot(wnode))

WatchZeroWitness ==
    /\ wpc = "returned"
    /\ wasof = 0
    /\ wview[1].state = "Success"
    /\ wview[1].update_seqnum > created_at[wnode]

\* C8: watch(n, as_of_seq=c) with c the node's current last-touched seqnum
\* stays blocked while only nodes outside n's subtree are mutated, and
\* returns after the next mutation of n or of a descendant of n.
BlockedUntilSubtreeChange ==
    /\ [][(wpc = "waiting" /\ obs[wnode].touch_seqno = wasof) =>
             IF SubtreeMutated(wnode)
             THEN wpc' = "woken" /\ obs'[wnode].touch_seqno > wasof
             ELSE wpc' = "waiting" /\ obs'[wnode] = obs[wnode] /\ wview' = <<>>]_vars
    /\ [](wpc = "woken" => obs[wnode].touch_seqno > wasof)
    /\ (wpc = "woken") ~> (wpc = "returned" /\ wview[1].update_seqnum > wasof)

BlockedUntilSubtreeChangeWitness ==
    /\ wpc = "waiting"
    /\ obs[wnode].touch_seqno = wasof
    /\ global_seqno > wasof + 1
    /\ \E m \in nodes_by_id : wnode \notin AncSelf(m) /\ state[m] = "Running"

\* C9 as stated: a node registered at seqnum N is published as Running at
\* N + 1 and as terminal at N + k with k >= 2.
LifecycleSeqnumsExact ==
    [][\A n \in NodeIds :
          /\ (state[n] = "Waiting" /\ state'[n] = "Running") =>
                 obs'[n].view.update_seqnum = created_at[n] + 1
          /\ (state[n] = "Running" /\ state'[n] \in TerminalStates) =>
                 obs'[n].view.update_seqnum >= created_at[n] + 2]_vars

\* C9 as amended: a node registered at seqnum N (state Waiting) is
\* published as Running at some seqnum N + j with j >= 1 and as terminal at
\* some seqnum N + k with k > j.
LifecycleSeqnums ==
    [][\A n \in NodeIds :
          /\ (n \in nodes_by_id' \ nodes_by_id) =>
                 /\ obs'[n].view = CreationSnapshot(n)'
                 /\ created_at'[n] = global_seqno'
          /\ (state[n] = "Waiting" /\ state'[n] = "Running") =>
                 /\ obs[n].view = CreationSnapshot(n)
                 /\ obs'[n].view.state = "Running"
                 /\ obs'[n].view.update_seqnum >= created_at[n] + 1
          /\ (state[n] = "Running" /\ state'[n] \in TerminalStates) =>
                 /\ obs[n].touch_seqno >= created_at[n] + 1
                 /\ obs'[n].view.state = state'[n]
                 /\ obs'[n].view.update_seqnum > obs[n].touch_seqno]_vars

LifecycleSeqnumsWitness ==
    \E n \in NodeIds :
        /\ state[n] \in TerminalStates
        /\ children[n] = <<>>
        /\ touches[n] = 2
        /\ obs[n].touch_seqno > created_at[n] + 3

\* C10: the observable of a code node that spawns no children and returns
\* normally is refreshed exactly twice after its creation snapshot, for
\* Running and for Success; its final view has state Success and the
\* callable's return value as outputs.
LeafSuccessTwoUpdates ==
    /\ [](\A n \in NodeIds :
             (phase[n] = "finished" /\ state[n] = "Success" /\ children[n] = <<>>) =>
                 /\ touches[n] = 2
                 /\ obs[n].view.state = "Success"
                 /\ obs[n].view.outputs = retval[n]
                 /\ retval[n] \in Values)
    /\ [][\A n \in NodeIds :
             (children'[n] = <<>> /\ touches'[n] # touches[n]) =>
                 \/ touches'[n] = 1 /\ obs'[n].view.state = "Running"
                 \/ touches'[n] = 2 /\ obs'[n].view.state \in {"Success", "Error"}]_vars

LeafSuccessWitness ==
    \E n \in NodeIds :
        /\ phase[n] = "finished"
        /\ state[n] = "Success"
        /\ children[n] = <<>>
        /\ touches[n] = 2
        /\ obs[n].view.outputs = "v42"

RECURSIVE Shows(_, _)
\* View v, of node n or of an ancestor of n, shows n with its current state,
\* outputs and exception.
Shows(v, n) ==
    IF v.id = n
    THEN v.state = state[n] /\ v.outputs = outputs[n] /\ v.exception = exception[n]
    ELSE \E i \in 1 .. Len(v.children) :
             /\ v.children[i].id \in AncSelf(n)
             /\ Shows(v.children[i], n)

\* C11: whenever a node's done-signal is set the node's state is terminal,
\* the posted outputs (Success) or exception (Error) are stored, and the view
\* of the node's observable and of every ancestor's observable already shows
\* that terminal state; done is never set in Waiting or Running.
CompletionPublishedBeforeSignalled ==
    \A n \in NodeIds :
        done[n] =>
            /\ state[n] \in TerminalStates
            /\ state[n] \notin {"Waiting", "Running"}
            /\ state[n] = "Success" => outputs[n] = retval[n] /\ outputs[n] # NoneVal
            /\ state[n] = "Error" => exception[n] = retval[n] /\ exception[n] # NoneVal
            /\ \A a \in AncSelf(n) : Shows(obs[a].view, n)

CompletionWitness ==
    \E n \in NodeIds :
        /\ done[n]
        /\ lock_node = NoParent
        /\ parent[n] # NoParent
        /\ state[parent[n]] = "Running"
        /\ obs[parent[n]].view.children[1].state = "Success"

\* C12: when the callable of a code node raises an exception other than the
\* cancellation, the node ends in state Error, result() re-raises that same
\* exception, and a log record naming the node id has been emitted once
\* post_exception returned.
CodeExceptionSurfaces ==
    \A n \in NodeIds :
        /\ (done[n] /\ retval[n] \in Errors) =>
               /\ state[n] = "Error"
               /\ result(n) = <<"raise", retval[n]>>
        /\ (phase[n] = "finished" /\ retval[n] \in Errors) =>
               /\ done[n]
               /\ \E r \in log : r.node = n /\ r.exception = retval[n]

CodeExceptionWitness ==
    \E n \in NodeIds :
        /\ phase[n] = "finished"
        /\ retval[n] = "nope"
        /\ result(n) = <<"raise", "nope">>
        /\ [node |-> n, exception |-> "nope"] \in log

\* C13: a node whose worker raised the cancellation error ends in state
\* Canceled, and a node whose worker raised any other exception ends in
\* state Error.
CancellationYieldsCanceled ==
    \A n \in NodeIds :
        done[n] =>
            /\ retval[n] = CancellationException => state[n] = "Canceled"
            /\ retval[n] \in Errors => state[n] = "Error"

\* C14: a child invoked without a token polls its parent's token; a child
\* invoked with a distinct token has cancel_requested() true whenever its
\* parent has; cancel_requested() of a node becomes true only through a
\* request on the node's own token or on a token above it, never through a
\* request on a child's distinct token; a token that is set stays set.
CancelDownNotUp ==
    /\ [](\A n \in NodeIds :
             (phase[n] # "none" /\ parent[n] # NoParent) =>
                 /\ token_link[n] = NoParent =>
                        cancel_token[n] = cancel_token[parent[n]]
                 /\ token_link[n] # NoParent =>
                        /\ cancel_token[n] # cancel_token[parent[n]]
                        /\ token_link[n] = cancel_token[parent[n]]
                 /\ cancel_requested(parent[n]) => cancel_requested(n))
    /\ [][\A p \in NodeIds :
             (phase[p] # "none" /\ ~cancel_requested(p) /\ cancel_requested(p)') =>
                 /\ cancel_req' \in UpChain(token_link, cancel_token[p])
                 /\ \A c \in NodeIds :
                        (parent[c] = p /\ token_link[c] # NoParent) =>
                            cancel_req' # cancel_token[c]]_vars
    /\ [][token_set \subseteq token_set']_vars

CancelDownNotUpWitness ==
    \E c \in NodeIds :
        /\ parent[c] # NoParent
        /\ token_link[c] # NoParent
        /\ cancel_req = cancel_token[c]
        /\ cancel_requested(c)
        /\ ~cancel_requested(parent[c])
        /\ state[parent[c]] = "Running"

\* A tool child is spawned by this step
ChildSpawned == Len(tchild') > Len(tchild) /\ tchild'[Len(tchild')] = "Running"

\* A provider call is begun by this step
ModelCallBegun == apc # "in_call" /\ apc' = "in_call"

\* C15: once the cancel token of the agent node is set, the loop begins no
\* further provider call, spawns no further tool child, and the node ends
\* with the cancellation exception in state Canceled.
AgentStopsOnCancel ==
    /\ [][acancel => ~ModelCallBegun /\ ~ChildSpawned]_vars
    /\ []((acancel /\ apc = "done") =>
              astate = "Canceled" /\ aexception = CancellationException)

\* The transcript holds a tool-error result carrying the cancellation message
HasCancelResult ==
    \E k \in 1 .. Len(transcript) :
        /\ transcript[k].kind = "ToolResult"
        /\ transcript[k].is_error
        /\ transcript[k].text = Str(CancellationException)

\* C16: when an awaited tool child ended with the cancellation exception,
\* the agent records a tool-error result carrying the cancellation message
\* for that call, begins no further provider call, and ends in Canceled.
ToolCancelEndsParent ==
    /\ [][(/\ apc = "await"
           /\ invoke_exceptions[ci] = NoneVal
           /\ tchild[ci] = CancellationException
           /\ (ci' # ci \/ apc' # apc)) =>
              transcript' = Append(transcript,
                                   ToolResultPart(tool_use_ids[ci], calls[ci].name,
                                                  Str(CancellationException), TRUE))]_vars
    /\ [][HasCancelResult => ~ModelCallBegun]_vars
    /\ []((HasCancelResult /\ apc = "done") => astate = "Canceled")

\* This step is a call of invoke that returned or raised
InvokeStepped == invoke_err' # invoke_err \/ next_node_id' # next_node_id

\* The call passes a Function object the Runtime did not register (unknown
\* name, or another object under a registered name) or invalid inputs
UnregisteredOrInvalid(call) == call.fn \notin RegisteredFns \/ ~call.inputs_ok

\* C17: an invoke of an unregistered Function object or with inputs that
\* fail validation raises, and leaves the runtime as it was: no node id is
\* allocated, node table, roots, children lists, observables and global
\* seqnum are unchanged, no node is constructed.
FailedLookupLeavesRuntime ==
    [][(InvokeStepped /\ UnregisteredOrInvalid(invoke_err'.call)) =>
          /\ invoke_err'.err \in {"ValueError: not registered",
                                  "ValueError: shares a name",
                                  "ArgumentValidationError"}
          /\ UNCHANGED <<next_node_id, nodes_by_id, roots, children, obs,
                         global_seqno, parent, state, phase>>]_vars

FailedLookupWitness ==
    /\ invoke_err.err = "ValueError: shares a name"
    /\ invoke_err.call.inputs_ok
    /\ nodes_by_id # {}
    /\ \E n \in NodeIds : phase[n] = "running"

\* The call passes a registered Function object and valid inputs, but a
\* provider override for a CodeFunction or, for an AgentFunction, an
\* effective provider without a client factory
ProviderMisuse(call) ==
    /\ call.fn \in RegisteredFns
    /\ call.inputs_ok
    /\ \/ FnKind(call.fn) = "CodeFunction" /\ call.provider # NoneVal
       \/ /\ FnKind(call.fn) = "AgentFunction"
          /\ EffectiveProvider(call.fn, call.provider) \notin ClientFactories

\* C18: an invoke of a CodeFunction with a provider override, or of an
\* AgentFunction whose effective provider has no client factory, raises and
\* creates no node: node table, roots, children lists, observables and
\* global seqnum are unchanged and no worker is started.
ProviderMisuseCreatesNoNode ==
    [][(InvokeStepped /\ ProviderMisuse(invoke_err'.call)) =>
          /\ invoke_err'.err # NoneVal
          /\ UNCHANGED <<nodes_by_id, roots, children, obs, global_seqno,
                         parent, state, phase>>]_vars

ProviderMisuseWitness ==
    /\ invoke_err.err = "ValueError: no client factory"
    /\ next_node_id = 2
    /\ nodes_by_id = {0}
    /\ phase[1] = "none"

RECURSIVE UsesClosure(_)
\* The Function objects reachable from S by following `uses`
UsesClosure(S) ==
    LET N == S \cup UNION {fn_uses[f] : f \in S}
    IN  IF N = S THEN S ELSE UsesClosure(N)

\* The Function objects reachable from the initial specs
Reachable == UsesClosure({specs[i] : i \in 1 .. Len(specs)} \ {NotAFunction})

\* Two distinct reachable Function objects share a name
NameCollision == \E f, g \in Reachable : f # g /\ fn_name[f] = fn_name[g]

\* C19: a completed construction has registered exactly the Function objects
\* reachable from the initial specs through `uses`, each under its name; the
\* construction fails with ValueError only when, and completes only when
\* not, two distinct reachable objects share a name; an object that is
\* reached more than once is accepted.
RegistrationIsClosure ==
    /\ reg_pc = "ok" =>
           /\ ~NameCollision
           /\ \A nm \in FnNames :
                  IF \E f \in Reachable : fn_name[f] = nm
                  THEN fn_by_name[nm] \in Reachable /\ fn_name[fn_by_name[nm]] = nm
                  ELSE fn_by_name[nm] = Unregistered
           /\ \A f \in Reachable : fn_by_name[fn_name[f]] = f
    /\ reg_pc = "ValueError" => NameCollision
    /\ reg_pc = "TypeError" => \E i \in 1 .. Len(specs) : specs[i] = NotAFunction
    /\ reg_pc = "bfs" =>
           \A nm \in FnNames : fn_by_name[nm] # Unregistered => fn_by_name[nm] \in Reachable

RegistrationWitness ==
    /\ reg_pc = "ok"
    /\ \E h \in Reachable :
           /\ \A i \in 1 .. Len(specs) : specs[i] # h
           /\ Cardinality({g \in Reachable : h \in fn_uses[g]}) >= 2

\* s is an initial segment of t
IsPrefix(s, t) == Len(s) <= Len(t) /\ \A i \in 1 .. Len(s) : s[i] = t[i]

\* n occurs exactly once in the list s
OccursOnce(s, n) == Cardinality({i \in 1 .. Len(s) : s[i] = n}) = 1

\* The list s holds registered nodes in the order of their registration
InRegistrationOrder(s) ==
    \A i, j \in 1 .. Len(s) :
        i < j => s[i] \in nodes_by_id /\ s[j] \in nodes_by_id
                 /\ created_at[s[i]] < created_at[s[j]]

\* C20: every registered node with caller P occurs exactly once in
\* P.children and every registered node without a caller exactly once in the
\* roots; children and roots are in registration order; the children tuple of
\* a node's published view and list_toplevel_views list the same nodes in the
\* same order; and no step removes or reorders a child or a root.
TopologyAppendOnly ==
    /\ [](/\ \A n \in nodes_by_id :
                 IF parent[n] = NoParent
                 THEN OccursOnce(roots, n)
                 ELSE OccursOnce(children[parent[n]], n)
          /\ InRegistrationOrder(roots)
          /\ \A p \in NodeIds : InRegistrationOrder(children[p])
          /\ \A p \in nodes_by_id :
                 /\ Len(obs[p].view.children) = Len(children[p])
                 /\ \A i \in 1 .. Len(children[p]) :
                        obs[p].view.children[i].id = children[p][i]
          /\ Len(list_toplevel_views) = Len(roots)
          /\ \A i \in 1 .. Len(roots) : list_toplevel_views[i].id = roots[i])
    /\ [][/\ IsPrefix(roots, roots')
          /\ \A p \in NodeIds : IsPrefix(children[p], children'[p])]_vars

TopologyWitness ==
    \E p \in nodes_by_id :
        /\ Len(children[p]) = 2
        /\ Len(obs[p].view.children) = 2
        /\ obs[p].view.children[1].id = children[p][1]
        /\ obs[p].view.children[2].id = children[p][2]
        /\ state[children[p][1]] \in {"Success", "Error"}

\* C21: for every parent P and child C, the global seqnum at which C was
\* registered as a child of P is strictly greater than the seqnum at which P
\* was created; the creation snapshots carry these seqnums.
ParentChildOrdering ==
    \A c \in nodes_by_id :
        parent[c] # NoParent =>
            /\ parent[c] \in nodes_by_id
            /\ created_at[c] > created_at[parent[c]]
            /\ obs[c].view.update_seqnum >= created_at[c]
            /\ obs[parent[c]].touch_seqno >= created_at[c]

ParentChildOrderingWitness ==
    \E c \in nodes_by_id :
        /\ parent[c] # NoParent
        /\ parent[parent[c]] # NoParent
        /\ created_at[c] > created_at[parent[c]] + 1

\* The get_or_put call of n's worker has returned an object for (bag, key)
Received(n, bag, key) ==
    gop_pc[n] = "returned" /\ gop_call[n].bag = bag /\ gop_call[n].key = key

\* C22: for every session bag and key the factory has run at most once,
\* whatever the number of concurrent get_or_put calls, and every caller that
\* has returned, early or late, holds the one instance the bag stores.
SingleFlightFactory ==
    \A bag \in NodeIds, key \in BagKeys :
        /\ factory_count[bag][key] <= 1
        /\ \A n \in NodeIds :
               Received(n, bag, key) =>
                   /\ gop_ret[n] # <<>>
                   /\ gop_ret[n] = bag_store[bag][key]
        /\ \A n, m \in NodeIds :
               Received(n, bag, key) /\ Received(m, bag, key) => gop_ret[n] = gop_ret[m]

SingleFlightWitness ==
    \E bag \in NodeIds, key \in BagKeys :
        /\ factory_count[bag][key] = 1
        /\ Cardinality({n \in NodeIds : Received(n, bag, key)}) = 3
        /\ {gop_call[n].scope : n \in NodeIds} = Scopes

\* Nodes that have been constructed
Constructed == {n \in NodeIds : phase[n] # "none"}

\* C23: for every node, at any depth, TopLevel resolves to the bag of the
\* node's root ancestor, so that two nodes share their TopLevel bag exactly
\* when they are in one tree; Self resolves to the node's own bag and Parent
\* to the bag of the immediate parent.
ScopeResolution ==
    /\ \A n \in Constructed :
           /\ object_bags[n].Self = n
           /\ object_bags[n].Parent = parent[n]
           /\ object_bags[n].TopLevel \in AncSelf(n)
           /\ parent[object_bags[n].TopLevel] = NoParent
    /\ \A n, m \in Constructed :
           object_bags[n].TopLevel = object_bags[m].TopLevel
               <=> AncSelf(n) \cap AncSelf(m) # {}

ScopeResolutionWitness ==
    \E n \in Constructed :
        /\ parent[n] # NoParent
        /\ parent[parent[n]] # NoParent
        /\ object_bags[n].TopLevel = parent[parent[n]]
        /\ object_bags[n].Parent = parent[n]
        /\ object_bags[parent[n]].TopLevel = object_bags[n].TopLevel
        /\ phase[n] = "running"

\* C24: get_or_put with scope Parent on the context of a root fails with
\* NoParentSession and returns nothing; the failing call runs no factory,
\* takes no lock and stores nothing in any bag; no other call fails so.
ParentScopeOnRootFails ==
    /\ [](\A n \in NodeIds :
              /\ (gop_pc[n] # "idle" /\ gop_call[n].scope = "Parent"
                      /\ parent[n] = NoParent)
                     => gop_pc[n] = "NoParentSession"
              /\ gop_pc[n] = "NoParentSession" =>
                     /\ gop_call[n].scope = "Parent"
                     /\ parent[n] = NoParent
                     /\ gop_ret[n] = <<>>
                     /\ \A bag \in NodeIds : bag_lock[bag] # n)
    /\ [][\A n \in NodeIds :
              (gop_pc[n] = "idle" /\ gop_pc'[n] = "NoParentSession") =>
                  /\ bag_store' = bag_store
                  /\ factory_count' = factory_count
                  /\ bag_lock' = bag_lock]_vars

ParentScopeOnRootWitness ==
    \E n, m \in NodeIds :
        /\ gop_pc[n] = "NoParentSession"
        /\ parent[m] = n
        /\ Received(m, n, "k1")
        /\ bag_store[n]["k2"] = <<>>

\* Positions of the tool-use and of the tool-result parts of the transcript
UsePositions == {k \in 1 .. Len(transcript) : transcript[k].kind = "ToolUse"}
ResultPositions == {k \in 1 .. Len(transcript) : transcript[k].kind = "ToolResult"}

\* C25: every tool-result part of the transcript comes after the tool-use
\* part with its id, and the tool-result parts are in the order of their
\* tool-use parts, which is the order of the model's requests, in whatever
\* order the children ended.
ResultsInRequestOrder ==
    /\ \A k \in ResultPositions :
           \E j \in UsePositions : j < k /\ transcript[j].id = transcript[k].id
    /\ \A k1, k2 \in ResultPositions, j1, j2 \in UsePositions :
           (/\ k1 < k2
            /\ transcript[j1].id = transcript[k1].id
            /\ transcript[j2].id = transcript[k2].id) => j1 < j2
    /\ \A i \in 1 .. Len(tool_use_ids) :
           \E j \in UsePositions :
               /\ transcript[j].id = tool_use_ids[i]
               /\ transcript[j].name = calls[i].name

ResultsInRequestOrderWitness ==
    /\ completed = <<2, 1>>
    /\ apc = "batch_end"
    /\ \E k1, k2 \in ResultPositions :
           /\ k1 < k2
           /\ transcript[k1].id = tool_use_ids[1]
           /\ transcript[k2].id = tool_use_ids[2]
           /\ ~transcript[k1].is_error

\* The tool-result parts that follow position j and carry the id of its part
ResultsOf(j) == {k \in ResultPositions : k > j /\ transcript[k].id = transcript[j].id}

\* The node has ended with the abort or with the cancellation exception
EndedByAbortOrCancel ==
    apc = "done" /\ (aexception = "AgentException" \/ astate = "Canceled")

\* C26: every tool-result part has exactly one tool-use part of its id, which
\* is earlier, and no id has two tool-result parts; between two turns, and
\* when the node has ended otherwise than by abort or cancellation, every
\* tool-use part has exactly one tool-result part of its id, which is later;
\* after an abort only requests of the last turn lack their result.
ToolRoundTrip ==
    /\ \A k \in ResultPositions :
           Cardinality({j \in UsePositions : transcript[j].id = transcript[k].id}) = 1
    /\ \A k \in ResultPositions :
           \E j \in UsePositions : j < k /\ transcript[j].id = transcript[k].id
    /\ \A j \in UsePositions : Cardinality(ResultsOf(j)) <= 1
    /\ (apc \in {"loop", "in_call"} \/ (apc = "done" /\ ~EndedByAbortOrCancel)) =>
           \A j \in UsePositions : Cardinality(ResultsOf(j)) = 1
    /\ EndedByAbortOrCancel =>
           \A j \in UsePositions :
               ResultsOf(j) = {} =>
                   \E i \in 1 .. Len(tool_use_ids) : tool_use_ids[i] = transcript[j].id

ToolRoundTripWitness ==
    /\ apc = "done"
    /\ astate = "Success"
    /\ ~fc_ids
    /\ Cardinality(UsePositions) = 2
    /\ \A j \in UsePositions : Cardinality(ResultsOf(j)) = 1 /\ transcript[j].name = "echo"

\* C27: in the spawn phase of a turn the agent waits for no child: the next
\* request can be invoked while earlier children of the turn are Running, no
\* result of the turn is recorded before the last request is invoked, and
\* the wait begins with every request invoked.
SpawnDoesNotBlock ==
    /\ apc = "spawn" =>
           /\ ENABLED Spawn
           /\ Len(tchild) = ci - 1
           /\ \A k \in ResultPositions :
                  \A i \in 1 .. Len(tool_use_ids) : transcript[k].id # tool_use_ids[i]
    /\ apc = "await" =>
           /\ Len(tchild) = Len(calls)
           /\ Len(tool_use_ids) = Len(calls)

SpawnDoesNotBlockWitness ==
    /\ apc = "await"
    /\ ci = 1
    /\ Len(tchild) = MaxCalls
    /\ \A i \in 1 .. Len(tchild) : tchild[i] = "Running"

\* The i-th request of the turn names an undeclared tool or carries
\* arguments that fail validation
Rejected(i) == invoke_tool_function(calls[i]) # NoneVal

\* The transcript holds the tool-result of the i-th request of the turn
\* with the given text and error flag
Recorded(i, text, err) ==
    \E k \in ResultPositions :
        /\ transcript[k].id = tool_use_ids[i]
        /\ transcript[k].name = calls[i].name
        /\ transcript[k].text = text
        /\ transcript[k].is_error = err

\* C28: a request for an undeclared tool or with invalid arguments creates
\* no child node, while every other request of the turn gets its child; once
\* the turn has been awaited the rejected request has a tool-result with
\* is_error = true that carries the failure message; the step that records
\* it leaves the node Running, and a batch without an abort is followed by
\* the next model call.
RejectedRequestIsToolError ==
    /\ [](\A i \in 1 .. Len(tchild) :
              /\ Rejected(i) <=> tchild[i] = NoneVal
              /\ invoke_exceptions[i] = invoke_tool_function(calls[i])
              /\ (Rejected(i) /\ (apc = "batch_end" \/ (apc = "await" /\ ci > i))) =>
                     Recorded(i, Str(invoke_tool_function(calls[i])), TRUE))
    /\ [][(apc = "await" /\ Rejected(ci)) =>
              /\ astate' = "Running"
              /\ pending_agent_ex' = pending_agent_ex
              /\ apc' \in {"await", "batch_end"}]_vars
    /\ [][(apc = "batch_end" /\ pending_agent_ex = NoneVal) =>
              /\ apc' \in {"batch_end", "loop"}
              /\ astate' = "Running"]_vars

RejectedRequestWitness ==
    /\ apc = "done"
    /\ astate = "Success"
    /\ Len(calls) = 2
    /\ calls[1].name = "ghost"
    /\ Recorded(1, Str(<<"UnknownTool", "ghost">>), TRUE)
    /\ Recorded(2, Str("hi"), FALSE)

\* The WaitAll loop is at a child that ended with the abort exception
AtAbortedChild ==
    apc = "await" /\ invoke_exceptions[ci] = NoneVal /\ tchild[ci] = "AgentException"

\* This step is an iteration of the WaitAll loop
AwaitStepped == apc = "await" /\ (ci' # ci \/ apc' # apc)

\* What the abort does after the batch: every child has ended, the abort is
\* posted as the node's exception, and no provider call is begun
AbortSurfacesAfterBatch ==
    /\ [](apc = "batch_end" => \A i \in 1 .. Len(tchild) : tchild[i] # "Running")
    /\ []((apc = "await" /\ invoke_exceptions[ci] = NoneVal /\ tchild[ci] = "Running")
              => ~ENABLED Await)
    /\ [][(AtAbortedChild /\ AwaitStepped) => pending_agent_ex' = tchild[ci]]_vars
    /\ [][pending_agent_ex # NoneVal =>
              /\ ~ModelCallBegun
              /\ pending_agent_ex' = pending_agent_ex \/ AtAbortedChild]_vars
    /\ [][(apc = "batch_end" /\ pending_agent_ex # NoneVal /\ apc' # apc) =>
              /\ apc' = "done"
              /\ astate' = "Error"
              /\ aexception' = pending_agent_ex]_vars
    /\ []((pending_agent_ex # NoneVal /\ apc = "done") =>
              astate = "Error" /\ aexception = pending_agent_ex)

\* C29 as stated: after a child failed with the abort exception the agent
\* accumulates no further result, still awaits the remaining children of
\* the batch, then posts the abort as the node's terminal exception and makes
\* no further model call.
AbortStopsAccumulating ==
    /\ AbortSurfacesAfterBatch
    /\ [][(pending_agent_ex # NoneVal /\ AwaitStepped) =>
              /\ transcript' = transcript
              /\ result_parts' = result_parts]_vars

\* C29 as amended: the agent records no result for a child that failed with
\* the abort exception, still awaits the remaining children of the batch and
\* records their results, then posts the abort as the node's terminal
\* exception and makes no further model call.
AbortSkipsOwnResult ==
    /\ AbortSurfacesAfterBatch
    /\ [][(AtAbortedChild /\ AwaitStepped) =>
              /\ transcript' = transcript
              /\ result_parts' = result_parts]_vars
    /\ [][(AwaitStepped /\ ~AtAbortedChild) =>
              /\ Len(transcript') = Len(transcript) + 1
              /\ transcript'[Len(transcript')].kind = "ToolResult"
              /\ transcript'[Len(transcript')].id = tool_use_ids[ci]
              /\ result_parts' = Append(result_parts, tool_use_ids[ci])]_vars

AbortWitness ==
    /\ apc = "done"
    /\ aexception = "AgentException"
    /\ astate = "Error"
    /\ Len(calls) = 2
    /\ tchild[1] = "AgentException"
    /\ Recorded(2, Str("hi"), FALSE)
    /\ \A k \in ResultPositions : transcript[k].id # tool_use_ids[1]

\* The WaitAll loop is at a child that ended in Error with an exception
\* other than the abort and the cancellation exception
AtFailedChild ==
    /\ apc = "await"
    /\ invoke_exceptions[ci] = NoneVal
    /\ tchild[ci] \notin {"Running", "Success", "AgentException", CancellationException}

\* C30: when the agent collects a tool child that ended in Error with an
\* exception other than the abort and the cancellation exception, it records
\* a tool-result with is_error = true holding the stringified exception and
\* stays Running with no pending abort of that child's making; a batch
\* without an abort is followed by the tool message and the next model
\* call, and the node never ends with the child's exception.
ChildErrorIsToolError ==
    /\ [][(AtFailedChild /\ AwaitStepped) =>
              /\ transcript' = Append(transcript,
                                      ToolResultPart(tool_use_ids[ci], calls[ci].name,
                                                     Str(tchild[ci]), TRUE))
              /\ astate' = "Running"
              /\ aexception' = NoneVal
              /\ pending_agent_ex' = pending_agent_ex]_vars
    /\ [][(apc = "batch_end" /\ pending_agent_ex = NoneVal /\ apc' # apc) =>
              /\ apc' = "loop"
              /\ astate' = "Running"
              /\ contents' = Append(contents, "tool")]_vars
    /\ [](astate = "Error" =>
              \/ aexception = "AgentException"
              \/ aexception \in {ModelProviderException("no candidates"),
                                 ModelProviderException("MAX_STEPS")})

ChildErrorWitness ==
    /\ apc = "done"
    /\ astate = "Success"
    /\ Len(calls) = 2
    /\ tchild[1] = "boom"
    /\ Recorded(1, Str("boom"), TRUE)
    /\ Recorded(2, Str("hi"), FALSE)

\* ------------------------------------------------ C31: the cap of the loop
\* The error the node ends with when the loop ran out of iterations
ToolLoopExhausted == ModelProviderException("MAX_STEPS")

\* The node has ended with that error
EndedExhausted == astate = "Error" /\ aexception = ToolLoopExhausted

PartKinds == [i \in 1 .. Len(transcript) |-> transcript[i].kind]
SpokenKinds == SelectSeq(PartKinds, LAMBDA k : k # "ThinkingBlock")
TextPositions == {k \in 1 .. Len(transcript) : transcript[k].kind = "ModelText"}

\* C32: a response without a tool-use request ends the run: a Model Text
\* part with the final text is the last part of the transcript, the node is
\* posted Success with that text as its outputs, and no model call follows;
\* a successful run with one tool request has the parts User Text, Tool Use,
\* Tool Result, Model Text in that order.
FinalTextEndsRun ==
    /\ [][(apc = "in_call" /\ Len(contents') > Len(contents) /\ apc' # "spawn")
            => /\ apc' = "done"
               /\ astate' = "Success"
               /\ Len(transcript') > Len(transcript)
               /\ transcript'[Len(transcript')].kind = "ModelText"
               /\ transcript'[Len(transcript')].text = "done"
               /\ aoutputs' = "done"
               /\ \A k \in 1 .. Len(transcript) : transcript'[k] = transcript[k]]_vars
    /\ [](astate = "Success"
            => /\ apc = "done"
               /\ TextPositions = {Len(transcript)}
               /\ transcript[Len(transcript)].text = aoutputs
               /\ aexception = NoneVal)
    /\ [][astate = "Success" => (astep' = astep /\ apc' = "done" /\ transcript' = transcript)]_vars
    /\ []((astate = "Success" /\ Cardinality(UsePositions) = 1)
            => /\ SpokenKinds = <<"UserText", "ToolUse", "ToolResult", "ModelText">>
               /\ \A j \in UsePositions, k \in ResultPositions :
                      j < k /\ transcript[j].id = transcript[k].id)

FinalTextWitness ==
    /\ astate = "Success"
    /\ aoutputs = "done"
    /\ Cardinality(UsePositions) = 1
    /\ PartKinds = <<"UserText", "ThinkingBlock", "ToolUse", "ToolResult",
                     "ThinkingBlock", "ModelText">>
    /\ ~transcript[4].is_error

\* ------------------------------------------------- C33: the runtime mutex
\* The thread that holds the mutex is blocked: in child.result(), in a
\* provider call, or in the wait of watch
HolderBlocked ==
    \/ \E n \in NodeIds :
          /\ ~Unblocked(n)
          /\ \/ mutex = n
             \/ \E c \in NodeIds :
                   mutex = c /\ parent[c] = n /\ phase[c] \in {"constructed", "registered"}
    \/ mutex = WatcherThread /\ wpc = "waiting"

\* A thread is about to enter a `with self._lock:` block
WantsMutex ==
    \/ next_node_id < MutexNodes
    \/ \E n \in NodeIds : phase[n] \in {"constructed", "registered"}
    \/ \E n \in NodeIds : phase[n] = "running" /\ ~Busy(n) /\ Unblocked(n)
    \/ wpc \in {"idle", "woken"}

\* C33: the runtime mutex is never held by a thread that waits for a child's
\* done-signal, is in a provider call or is blocked in watch; the holder can
\* always run its block to the end, and when the mutex is free a thread
\* that wants it gets it, so no interleaving deadlocks on the mutex.
MutexNeverHeldWhileWaiting ==
    /\ ~HolderBlocked
    /\ mutex # NoParent => ENABLED MutexRelease
    /\ (mutex = NoParent /\ WantsMutex) =>
          ENABLED (InvokeLocks \/ PostLocks \/ WatcherLocks)

\* A watcher waits in watch while a worker holds the mutex for its post and
\* another worker waits for its child
MutexWitness ==
    /\ wpc = "waiting"
    /\ mutex \in NodeIds
    /\ msec = "post_success"
    /\ \E n \in NodeIds : waits_on[n] # NoParent /\ mutex = waits_on[n]

\* --------------------------------------------- C34: transcript append-only
\* C34: every step of the agent loop leaves the transcript as it is or
\* appends parts to it: a part once appended is never changed or removed,
\* so the transcript read in any state is a prefix of every later one.
TranscriptAppendOnly ==
    [][/\ IsPrefix(transcript, transcript')
       /\ \A k \in 1 .. Len(transcript) : transcript'[k] = transcript[k]]_vars

\* A second response with a thought signature was recorded after the parts
\* of a batch of two tool requests
TranscriptWitness ==
    /\ apc = "done"
    /\ Len(transcript) = 8
    /\ transcript[2].kind = "ThinkingBlock"
    /\ transcript[7].kind = "ThinkingBlock"
    /\ transcript[8].kind = "ModelText"

\* ------------------------------------------------- C35: unique node ids
\* C35: the ids that invokes read from the counter are strictly increasing,
\* so no two nodes receive the same id, also when several threads are in
\* invoke at once; a registration always adds a new key to the node table,
\* and the observable map has exactly the keys of the node table.
UniqueNodeIds ==
    /\ [](\A i, j \in 1 .. Len(issued) : i < j => issued[i] < issued[j])
    /\ [](\A t, u \in Threads :
            (t # u /\ alloc_id[t] # NoParent /\ alloc_id[u] # NoParent)
                => alloc_id[t] # alloc_id[u])
    /\ [](\A n \in NodeIds : phase[n] # "none" => OccursOnce(issued, n))
    /\ [](nodes_by_id \subseteq {issued[i] : i \in 1 .. Len(issued)})
    /\ [](\A n \in NodeIds : HasObs(obs, n) <=> n \in nodes_by_id)
    /\ [][\A n \in NodeIds :
            (phase[n] = "constructed" /\ phase'[n] = "registered")
                => (n \notin nodes_by_id /\ nodes_by_id' = nodes_by_id \cup {n})]_vars

\* Two threads are in invoke at once: one has left the allocation block and
\* not yet constructed its node, the other holds the mutex and has read its id
UniqueNodeIdsWitness ==
    /\ \E t, u \in Threads :
          /\ alloc_pc[t] = "unlocked"
          /\ alloc_pc[u] = "read"
          /\ alloc_id[u] = alloc_id[t] + 1
    /\ nodes_by_id # {}

\* ------------------------------------ C36: the last-touched seqnums
\* C36: the last-touched seqnum of every observable never decreases, never
\* exceeds the global seqnum and equals the update_seqnum of the view the
\* observable holds; the assertion of _publish_tree_update never fails; and
\* a parent's last-touched seqnum is at least that of each of its children.
TouchSeqnoInvariants ==
    /\ [][\A n \in NodeIds :
            HasObs(obs, n) =>
                (HasObs(obs', n) /\ obs'[n].touch_seqno >= obs[n].touch_seqno)]_vars
    /\ [](\A n \in NodeIds :
            HasObs(obs, n) =>
                /\ obs[n].touch_seqno <= global_seqno
                /\ obs[n].touch_seqno = obs[n].view.update_seqnum)
    /\ [](assert_ok)
    /\ [](\A c \in NodeIds :
            (HasObs(obs, c) /\ parent[c] # NoParent) =>
                /\ HasObs(obs, parent[c])
                /\ obs[parent[c]].touch_seqno >= obs[c].touch_seqno)

\* A parent with two children, touched after its first child and together
\* with its second
TouchSeqnoWitness ==
    \E p, c, d \in NodeIds :
        /\ c # d
        /\ parent[c] = p
        /\ parent[d] = p
        /\ HasObs(obs, c)
        /\ HasObs(obs, d)
        /\ obs[c].touch_seqno < obs[d].touch_seqno
        /\ obs[d].touch_seqno = obs[p].touch_seqno
        /\ obs[p].touch_seqno = global_seqno
        /\ state[d] \in {"Success", "Error"}

\* ------------------------------------------- C37: the frame of a publish
\* The node passed to _publish_tree_update in this step: the mutated node,
\* in a registration the new node and not its parent, whose list of
\* children the same block extends
PublishedNode(x) ==
    /\ Mutated(x)
    /\ ~\E y \in NodeIds : y # x /\ Mutated(y) /\ x \in AncSelf(y)'

\* C37: a step that publishes a mutation of node x changes the observables
\* of x and of its ancestors only: the observable of every other node
\* (sibling, descendant, node of another tree) is unchanged, and a watcher
\* that waits on such a node keeps waiting.
PublishFrame ==
    [][\A x \in NodeIds :
          PublishedNode(x) =>
              \A m \in NodeIds \ AncSelf(x)' :
                  /\ obs'[m] = obs[m]
                  /\ (wpc = "waiting" /\ wnode = m) => wpc' = "waiting"]_vars

\* A watcher still waits on a node after its sibling below the same parent
\* ended, which touched the sibling and the parent
PublishFrameWitness ==
    \E m, d \in NodeIds :
        /\ m # d
        /\ parent[m] # NoParent
        /\ parent[d] = parent[m]
        /\ wpc = "waiting"
        /\ wnode = m
        /\ wasof = obs[m].touch_seqno
        /\ state[d] \in {"Success", "Error"}
        /\ obs[d].touch_seqno = global_seqno
        /\ obs[parent[m]].touch_seqno = global_seqno
        /\ obs[m].touch_seqno < global_seqno

\* ------------------------------------------------------ C38: no torn view
RECURSIVE ViewsIn(_)
\* A view and the views nested in it
ViewsIn(v) == {v} \cup UNION {ViewsIn(v.children[i]) : i \in 1 .. Len(v.children)}

\* The fields of a view fit its state; retval is what the worker of the
\* node passed to post_success or post_exception
Untorn(v) ==
    /\ v.state \in {"Waiting", "Running"} =>
          (v.outputs = NoneVal /\ v.exception = NoneVal)
    /\ v.state = "Success" =>
          (v.exception = NoneVal /\ v.outputs \in Values /\ v.outputs = retval[v.id])
    /\ v.state = "Error" =>
          (v.exception \in Errors /\ v.exception = retval[v.id])

\* C38: every NodeView held by an observable, and every view nested in it,
\* is untorn: no outputs and no exception while Waiting or Running, the
\* posted outputs and no exception in Success, the posted exception in Error.
NoTornView ==
    \A n \in NodeIds :
        HasObs(obs, n) => \A v \in ViewsIn(obs[n].view) : Untorn(v)

\* A root whose view shows one child in Success and one in Error, returned
\* to a watcher
NoTornViewWitness ==
    \E r \in NodeIds :
        /\ HasObs(obs, r)
        /\ Len(obs[r].view.children) = 2
        /\ obs[r].view.state = "Running"
        /\ obs[r].view.children[1].state = "Success"
        /\ obs[r].view.children[2].state = "Error"
        /\ wpc = "returned"
        /\ wview # <<>>
        /\ wview[1] = obs[r].view

\* ------------------------------------------------- C39: the monitor loop
\* C39: once the root has completed, the NodeView monitor terminates: none
\* of its watch calls blocks forever.
MonitorTerminates == (wnode = 0 /\ done[0]) ~> (wpc = "stopped")

\* -------------------------------------------------- C40: the token usage
\* the sums over the counters; a counter that is still None counts as absent
UsageSums ==
    /\ token_usage.input_tokens_total
         = token_usage.input_tokens_regular + token_usage.input_tokens_cache_read
    /\ token_usage.output_tokens_total
         = Or0(token_usage.output_tokens_reasoning) + Or0(token_usage.output_tokens_text)
    /\ astep >= 1 /\ apc # "in_call" =>
         /\ token_usage.output_tokens_reasoning # NoParent
         /\ token_usage.output_tokens_text # NoParent

UsageGrows ==
    /\ token_usage'.input_tokens_total >= token_usage.input_tokens_total
    /\ token_usage'.input_tokens_cache_read >= token_usage.input_tokens_cache_read
    /\ token_usage'.output_tokens_total >= token_usage.output_tokens_total

\* C40: after any number of accumulated responses input_total =
\* input_regular + input_cache_read and output_total = output_reasoning +
\* output_text, and input_total, input_cache_read and output_total never
\* decrease from one response to the next.
TokenUsageSums == []UsageSums /\ [][UsageGrows]_token_usage

\* three responses are accumulated, with cached input, reasoning and text
TokenUsageWitness ==
    /\ astep = MaxResponses + 1
    /\ apc = "done"
    /\ token_usage.input_tokens_cache_read > 0
    /\ token_usage.input_tokens_regular < token_usage.input_tokens_total
    /\ token_usage.output_tokens_reasoning > 0
    /\ token_usage.output_tokens_text > 0

====
